---- MODULE Spec2Model ----
(***************************************************************************)
(* Route resolution of the deck.gl EV visualisation:                       *)
(*   - fetchRouteWithRetry and the batch loop of the offline script        *)
(*     scripts/generateRoutes.ts,                                          *)
(*   - fetchRoute / routeCache of services/routeService.ts,                *)
(*   - initializeRoutes of data/tripData.ts and the route loading effect   *)
(*     of components/DeckGLMap.tsx.                                        *)
(* Coordinates are integers in units of 1e-5 degree.  The routing service  *)
(* is the environment: the status of each answer is chosen freely, the     *)
(* geometry of a successful answer is a function of the exact coordinates  *)
(* of the request.                                                         *)
(***************************************************************************)
EXTENDS Integers, Sequences, FiniteSets, TLC

(* ----------------------------- bounds ---------------------------------- *)
MaxEdges == 3
MaxCalls == 3
MaxInv == 2
MaxDraws == 20
MaxGenCalls == 2
MaxKeyNumber == 11

\* The largest weight of a demand edge the trip expander is run on.
MaxWeight == 3

\* The most demand edges the trip expander is run on.
MaxTripEdges == 2

\* The most stations the route-network generator is run on.
MaxStations == 3

\* The greatest count generateStationsAroundCity is called with.
MaxCount == 2

\* The most animation frames of a run.
MaxFrames == 3

(* ------------------------- program constants --------------------------- *)
DefaultMaxRetries == 3
DefaultRetryDelay == 2000
OfflineBatchSize == 2
DelayBetweenBatches == 500
LiveBatchSize == 5
LiveBatchDelay == 150

\* null, as a value comparable with a RouteGeometry.
NoRoute == [coordinates |-> <<>>]

\* The answers of the routing service that the code tells apart.
Responses == {"429", "500", "exc", "ok", "empty"}

\* Retry delays the single-call specification is run with.
RetryDelays == {500, DefaultRetryDelay}

(* ------------------------------ helpers -------------------------------- *)
RECURSIVE Pow2(_)
Pow2(n) == IF n = 0 THEN 1 ELSE 2 * Pow2(n - 1)

RECURSIVE SumSeq(_)
SumSeq(s) == IF s = <<>> THEN 0 ELSE Head(s) + SumSeq(Tail(s))

\* new Map(), map.has(k), map.set(k, v)
EmptyMap == [k \in {} |-> NoRoute]

MapHas(m, k) == k \in DOMAIN m

MapSet(m, k, v) == [x \in (DOMAIN m) \cup {k} |-> IF x = k THEN v ELSE m[x]]

(* ------------------------------ seededRandom --------------------------- *)
\* JavaScript numbers are IEEE-754 doubles: seed * 1103515245 is rounded to
\* 53 significant bits, so is the sum with 12345, and `& 0x7fffffff` keeps
\* the low 31 bits of the integer that results.  Numbers up to 2^62 are kept
\* as four base-2^16 digits, least significant first.
Base16 == 65536
Base15 == 32768

\* 1103515245 = LcgMulHigh * 2^16 + LcgMulLow
LcgMulHigh == 16838
LcgMulLow == 20077
LcgIncrement == 12345

\* 0x7fffffff
RandMax == 2147483647

RECURSIVE BitLen(_)
BitLen(n) == IF n = 0 THEN 0 ELSE 1 + BitLen(n \div 2)

\* seed * 1103515245, exactly.
LcgProduct(seed) ==
    LET s0 == seed % Base16
        s1 == seed \div Base16
        t0 == s0 * LcgMulLow
        t1 == s1 * LcgMulLow + s0 * LcgMulHigh + (t0 \div Base16)
        t2 == s1 * LcgMulHigh + (t1 \div Base16)
    IN  <<t0 % Base16, t1 % Base16, t2 % Base16, t2 \div Base16>>

\* d + k for a small k >= 0, exactly.
AddSmall(d, k) ==
    LET n0 == d[1] + k
        n1 == d[2] + (n0 \div Base16)
        n2 == d[3] + (n1 \div Base16)
    IN  <<n0 % Base16, n1 % Base16, n2 % Base16, d[4] + (n2 \div Base16)>>

\* The double nearest to d: 53 significant bits, ties to even.
RoundDouble(d) ==
    IF d[4] < 32 THEN d
    ELSE LET ulp == Pow2(BitLen(d[4]) - 5)
             low == d[1] % ulp
             kept == <<d[1] - low, d[2], d[3], d[4]>>
             up == \/ 2 * low > ulp
                   \/ 2 * low = ulp /\ (d[1] \div ulp) % 2 = 1
         IN  IF up THEN AddSmall(kept, ulp) ELSE kept

\* x & 0x7fffffff
Low31(d) == (d[2] % Base15) * Base16 + d[1]

\* (seed * 1103515245 + 12345) mod 2^31 in integer arithmetic.
ExactNextSeed(seed) == Low31(AddSmall(LcgProduct(seed), LcgIncrement))

\* seed = (seed * 1103515245 + 12345) & 0x7fffffff
NextSeed(seed) == Low31(RoundDouble(AddSmall(RoundDouble(LcgProduct(seed)), LcgIncrement)))

\* return seed / 0x7fffffff, as a fraction.
RandomValue(seed) == [num |-> seed, den |-> RandMax]

\* The next n states of the generator.
RECURSIVE Stream(_, _)
Stream(seed, n) ==
    IF n = 0 THEN <<>> ELSE LET next == NextSeed(seed) IN <<next>> \o Stream(next, n - 1)

\* random() * k for an integer 0 <= k < 256, where random() returned
\* state / 0x7fffffff: k * state = q * 0x7fffffff + r.
MulRand(state, k) ==
    LET p1 == (state \div Base16) * k
        p0 == (state % Base16) * k
        mid == (p1 % Base15) + (p0 \div Base16)
        hi == (p1 \div Base15) + (mid \div Base15)
        lo == (mid % Base15) * Base16 + (p0 % Base16)
    IN  IF lo >= RandMax - hi
          THEN [q |-> hi + 1, r |-> lo - (RandMax - hi)]
          ELSE [q |-> hi, r |-> hi + lo]

\* Math.floor(random() * k)
FloorRand(state, k) == MulRand(state, k).q

\* random() < num / den and random() > num / den, for den < 256.
RandLess(state, num, den) == MulRand(state, den).q < num

RandGreater(state, num, den) ==
    LET m == MulRand(state, den) IN m.q > num \/ (m.q = num /\ m.r > 0)

(* ------------------- IEEE-754 double arithmetic ------------------------ *)
\* A JavaScript number is modelled as a binary64 value m * 2^e whose
\* significand m is a natural number of exactly 53 bits (m = 0 for zero).
\* Natural numbers below 2^112 are kept as eight limbs of 14 bits, the least
\* significant first.  Every operation computes the exact result and rounds
\* it to nearest, ties to even, as the engine does.  Only non-negative
\* finite values occur.

\* bits of a limb
LimbBits == 14

LimbBase == 2^LimbBits

LimbCount == 8

\* bits of the significand of a binary64 number
MantissaBits == 53

Limbs == 1..LimbCount

BigZero == [i \in Limbs |-> 0]

\* The limbs of the number whose limb i has the (possibly negative or
\* oversized) value x[i]; the number itself is in 0 .. 2^112 - 1.
Carry(x) ==
  LET t1 == x[1]
      t2 == x[2] + (t1 \div LimbBase)
      t3 == x[3] + (t2 \div LimbBase)
      t4 == x[4] + (t3 \div LimbBase)
      t5 == x[5] + (t4 \div LimbBase)
      t6 == x[6] + (t5 \div LimbBase)
      t7 == x[7] + (t6 \div LimbBase)
      t8 == x[8] + (t7 \div LimbBase)
  IN  <<t1 % LimbBase, t2 % LimbBase, t3 % LimbBase, t4 % LimbBase,
        t5 % LimbBase, t6 % LimbBase, t7 % LimbBase, t8 % LimbBase>>

\* n as limbs, for 0 <= n < 2^31
BigFromInt(n) == Carry([i \in Limbs |-> IF i = 1 THEN n ELSE 0])

\* a as an integer, for a < 2^31
BigToInt(a) == a[1] + a[2] * LimbBase + a[3] * LimbBase * LimbBase

Limb(a, i) == IF i \in Limbs THEN a[i] ELSE 0

BigAdd(a, b) == Carry([i \in Limbs |-> a[i] + b[i]])

\* a - b for a >= b
BigSub(a, b) == Carry([i \in Limbs |-> a[i] - b[i]])

\* a * k for 0 <= k <= LimbBase
BigMulSmall(a, k) == Carry([i \in Limbs |-> a[i] * k])

\* a * b for a, b < 2^56
BigMul(a, b) ==
  Carry([k \in Limbs |->
           a[1] * Limb(b, k) + a[2] * Limb(b, k - 1)
             + a[3] * Limb(b, k - 2) + a[4] * Limb(b, k - 3)])

\* the largest member of a non-empty set of limb indices
TopLimb(S) == CHOOSE i \in S : \A j \in S : j <= i

CmpAt(a, b, differ) ==
  IF differ = {} THEN 0
  ELSE IF a[TopLimb(differ)] < b[TopLimb(differ)] THEN -1 ELSE 1

\* -1, 0 or 1 as a < b, a = b, a > b
BigCmp(a, b) == CmpAt(a, b, {i \in Limbs : a[i] # b[i]})

\* a * 2^k, which is below 2^112
BigShl(a, k) ==
  Carry([i \in Limbs |-> Limb(a, i - (k \div LimbBits)) * 2^(k % LimbBits)])

\* floor(a / 2^k)
BigShr(a, k) ==
  [i \in Limbs |->
     (Limb(a, i + (k \div LimbBits)) \div 2^(k % LimbBits))
       + (Limb(a, i + (k \div LimbBits) + 1) % 2^(k % LimbBits))
           * 2^(LimbBits - (k % LimbBits))]

\* number of bits of a limb
LimbBitLen(n) == Cardinality({k \in 0..(LimbBits - 1) : 2^k <= n})

BitLenAt(a, used) ==
  IF used = {} THEN 0
  ELSE (TopLimb(used) - 1) * LimbBits + LimbBitLen(a[TopLimb(used)])

\* number of bits of a
BigBitLen(a) == BitLenAt(a, {i \in Limbs : a[i] # 0})

\* a mod 2^k
BigLowBits(a, k) == BigSub(a, BigShl(BigShr(a, k), k))

\* the bits of b below its leading 15
DivShift(len) == IF len > LimbBits + 1 THEN len - (LimbBits + 1) ELSE 0

\* a lower estimate of floor(r / b) from the leading 15 bits of b, at most
\* two below it
DivEstimate(r, b, s) ==
  BigToInt(BigShr(r, s)) \div (BigToInt(BigShr(b, s)) + (IF s = 0 THEN 0 ELSE 1))

DivCorrected(rem, b, q0, c) == [q |-> q0 + c, r |-> BigSub(rem, BigMulSmall(b, c))]

DivRemainder(rem, b, q0) ==
  DivCorrected(rem, b, q0, Cardinality({j \in 1..2 : BigCmp(rem, BigMulSmall(b, j)) >= 0}))

DivWith(r, b, q0) == DivRemainder(BigSub(r, BigMulSmall(b, q0)), b, q0)

\* floor(r / b) and the remainder, for r < LimbBase * b
DivDigit(r, b) == DivWith(r, b, DivEstimate(r, b, DivShift(BigBitLen(b))))

\* the quotient whose digits are top, the leading one first
Quotient(top, r) ==
  [q |-> Carry([i \in Limbs |-> IF i <= 5 THEN top[6 - i] ELSE 0]), r |-> r]

DivDigits4(first, d1, d2, d3, d4) == Quotient(<<first, d1.q, d2.q, d3.q, d4.q>>, d4.r)

DivDigits3(first, d1, d2, d3, b) ==
  DivDigits4(first, d1, d2, d3, DivDigit(BigShl(d3.r, LimbBits), b))

DivDigits2(first, d1, d2, b) ==
  DivDigits3(first, d1, d2, DivDigit(BigShl(d2.r, LimbBits), b), b)

DivDigits1(first, d1, b) ==
  DivDigits2(first, d1, DivDigit(BigShl(d1.r, LimbBits), b), b)

\* quotient and remainder of r0 * 2^56 / b for r0 < b: four digits by long
\* division, the leading one first, below the digit `first` already found
BigLongDiv(first, r0, b) == DivDigits1(first, DivDigit(BigShl(r0, LimbBits), b), b)

\* bits of quotient computed below the leading bit, enough to round
DivBits == 4 * LimbBits

DZero == [m |-> BigZero, e |-> 0]

\* q * 2^e with q brought back to 53 bits when rounding up carried out
Renormalised(q1, e) ==
  IF BigBitLen(q1) > MantissaBits
  THEN [m |-> BigShr(q1, 1), e |-> e + 1]
  ELSE [m |-> q1, e |-> e]

\* q rounded by the bits cut off below it: c compares them with half a unit
RoundedUp(q, c, e, sticky) ==
  Renormalised(IF c > 0 \/ (c = 0 /\ (sticky \/ q[1] % 2 = 1))
                 THEN BigAdd(q, BigFromInt(1)) ELSE q, e)

RoundCut(n, e, sticky, s) ==
  RoundedUp(BigShr(n, s), BigCmp(BigLowBits(n, s), BigShl(BigFromInt(1), s - 1)),
            e + s, sticky)

RoundLen(n, e, sticky, len) ==
  IF len = 0 THEN DZero
  ELSE IF len <= MantissaBits
  THEN [m |-> BigShl(n, MantissaBits - len), e |-> e - (MantissaBits - len)]
  ELSE RoundCut(n, e, sticky, len - MantissaBits)

\* the double nearest to (n + s) * 2^e, where s is 0 or, when sticky, a
\* positive amount below one unit of n
RoundNearestEven(n, e, sticky) == RoundLen(n, e, sticky, BigBitLen(n))

IsZero(a) == a.m = BigZero

DFromInt(n) == RoundNearestEven(BigFromInt(n), 0, FALSE)

DMul(a, b) ==
  IF IsZero(a) \/ IsZero(b) THEN DZero
  ELSE RoundNearestEven(BigMul(a.m, b.m), a.e + b.e, FALSE)

DivRounded(d, e) == RoundNearestEven(d.q, e, d.r # BigZero)

DivFrom(first, a, b) ==
  DivRounded(BigLongDiv(first, IF first = 1 THEN BigSub(a.m, b.m) ELSE a.m, b.m),
             a.e - b.e - DivBits)

DDiv(a, b) ==
  IF IsZero(a) THEN DZero
  ELSE DivFrom(IF BigCmp(a.m, b.m) >= 0 THEN 1 ELSE 0, a, b)

MinExp(a, b) == IF a.e < b.e THEN a.e ELSE b.e

\* a and b are so far apart that b is less than a quarter of the last bit of a
Dwarfs(a, b) == a.e - b.e > MantissaBits + 2

\* the significand of a at the exponent e <= a.e
Aligned(a, e) == BigShl(a.m, a.e - e)

DAdd(a, b) ==
  IF IsZero(a) THEN b
  ELSE IF IsZero(b) THEN a
  ELSE IF Dwarfs(a, b) THEN a
  ELSE IF Dwarfs(b, a) THEN b
  ELSE RoundNearestEven(BigAdd(Aligned(a, MinExp(a, b)), Aligned(b, MinExp(a, b))),
                        MinExp(a, b), FALSE)

\* -1, 0 or 1 as a < b, a = b, a > b: significands have the same number of
\* bits, so the larger exponent decides
DCmp(a, b) ==
  IF IsZero(a) /\ IsZero(b) THEN 0
  ELSE IF IsZero(a) THEN -1
  ELSE IF IsZero(b) THEN 1
  ELSE IF a.e > b.e THEN 1
  ELSE IF a.e < b.e THEN -1
  ELSE BigCmp(a.m, b.m)

\* a - b for a >= b
DSub(a, b) ==
  IF IsZero(b) \/ Dwarfs(a, b) THEN a
  ELSE RoundNearestEven(BigSub(Aligned(a, MinExp(a, b)), Aligned(b, MinExp(a, b))),
                        MinExp(a, b), FALSE)

\* floor(a) for 1 <= a < 2^31
DFloor(a) == BigToInt(BigShr(a.m, 0 - a.e))

\* a % n for a natural number n > 0 and 0 <= a < 2^31: the exact remainder
DMod(a, n) ==
  IF DCmp(a, DFromInt(n)) < 0 THEN a
  ELSE DSub(a, DFromInt((DFloor(a) \div n) * n))

(* ------------------------- generateChargingStations -------------------- *)
operators == <<"Tesla", "Fastned", "Shell Recharge", "Allego", "Ionity", "BP Pulse", "EVBox">>

\* Coordinates of the hub tables in 1e-6 degree.
cityHubs ==
    << 
       [name |-> "Amsterdam", coords |-> <<4895168, 52370216>>, density |-> 25],
       [name |-> "Rotterdam", coords |-> <<4462456, 51926517>>, density |-> 20],
       [name |-> "The Hague", coords |-> <<4288788, 52078663>>, density |-> 18],
       [name |-> "Utrecht", coords |-> <<5104480, 52092876>>, density |-> 18],
       [name |-> "Eindhoven", coords |-> <<5477780, 51440830>>, density |-> 15],
       [name |-> "Groningen", coords |-> <<6566670, 53219170>>, density |-> 12],
       [name |-> "Tilburg", coords |-> <<5091300, 51555510>>, density |-> 10],
       [name |-> "Almere", coords |-> <<5222124, 52371353>>, density |-> 12],
       [name |-> "Breda", coords |-> <<4768323, 51571915>>, density |-> 10],
       [name |-> "Nijmegen", coords |-> <<5852800, 51842500>>, density |-> 10]
    >>

highwayStations ==
    << 
       [name |-> "A1 Amersfoort", coords |-> <<5387000, 52156000>>],
       [name |-> "A1 Deventer", coords |-> <<6155000, 52251000>>],
       [name |-> "A1 Hengelo", coords |-> <<6793000, 52265000>>],
       [name |-> "A2 Breukelen", coords |-> <<4989000, 52172000>>],
       [name |-> "A2 Vianen", coords |-> <<5091000, 51989000>>],
       [name |-> "A2 Den Bosch", coords |-> <<5299000, 51688000>>],
       [name |-> "A2 Eindhoven Noord", coords |-> <<5462000, 51481000>>],
       [name |-> "A2 Weert", coords |-> <<5707000, 51252000>>],
       [name |-> "A4 Hoofddorp", coords |-> <<4689000, 52303000>>],
       [name |-> "A4 Leiden", coords |-> <<4497000, 52160000>>],
       [name |-> "A4 Delft", coords |-> <<4357000, 51998000>>],
       [name |-> "A12 Woerden", coords |-> <<4881000, 52085000>>],
       [name |-> "A12 Ede", coords |-> <<5666000, 52039000>>],
       [name |-> "A12 Arnhem", coords |-> <<5898000, 51985000>>],
       [name |-> "A28 Amersfoort Zuid", coords |-> <<5387000, 52130000>>],
       [name |-> "A28 Harderwijk", coords |-> <<5620000, 52342000>>],
       [name |-> "A28 Zwolle", coords |-> <<6083000, 52508000>>],
       [name |-> "A27 Hilversum", coords |-> <<5176000, 52223000>>],
       [name |-> "A27 Gorinchem", coords |-> <<4973000, 51834000>>],
       [name |-> "A58 Roosendaal", coords |-> <<4465000, 51530000>>],
       [name |-> "A58 Bergen op Zoom", coords |-> <<4292000, 51495000>>],
       [name |-> "A67 Venlo", coords |-> <<6172000, 51370000>>],
       [name |-> "A7 Hoorn", coords |-> <<5059000, 52642000>>],
       [name |-> "A7 Afsluitdijk", coords |-> <<5271000, 53017000>>],
       [name |-> "A7 Heerenveen", coords |-> <<5924000, 52960000>>],
       [name |-> "A28 Assen", coords |-> <<6562000, 52993000>>]
    >>

nameSuffixes == <<"Noord", "Zuid", "Oost", "West", "Centrum", "Station", "Park", "Mall">>

\* The decimal digits of n, as `${n}` writes them.
DigitChars == <<"0", "1", "2", "3", "4", "5", "6", "7", "8", "9">>

RECURSIVE Digits(_)
Digits(n) ==
    IF n < 10 THEN <<DigitChars[n + 1]>>
    ELSE Append(Digits(n \div 10), DigitChars[(n % 10) + 1])

\* `station-${n}` and `highway-${n}`
StationId(n) == <<"station", "-">> \o Digits(n)

HighwayId(n) == <<"highway", "-">> \o Digits(n)

\* available drawn from 0 .. chargers + 1.
AvailableOneTooMany(state, chargers) == FloorRand(state, chargers + 2)

\* Math.floor(random() * (chargers + 1))
Available(state, chargers) == FloorRand(state, chargers + 1)

\* One iteration of the loop of generateStationsAroundCity; d holds the
\* values of the next calls of random(), `used` tells how many were made.
\* The position is kept as the centre and the two draws it is computed from.
CityStation(cityName, center, i, startId, d) ==
    LET first == IF RandLess(d[3], 1, 5) THEN "superfast" ELSE "other"
        k == IF first = "superfast" THEN 3 ELSE 4
        type == IF first = "superfast" THEN "superfast"
                ELSE IF RandLess(d[4], 1, 2) THEN "fast" ELSE "standard"
        chargers == IF type = "superfast" THEN 8 + FloorRand(d[k + 1], 8)
                    ELSE IF type = "fast" THEN 4 + FloorRand(d[k + 1], 6)
                    ELSE 2 + FloorRand(d[k + 1], 4)
    IN  [station |->
            [id |-> StationId(startId + i),
             name |-> <<cityName, nameSuffixes[FloorRand(d[k + 2], 8) + 1], i + 1>>,
             coordinates |-> [center |-> center, angle |-> RandomValue(d[1]),
                              distance |-> RandomValue(d[2])],
             chargers |-> chargers,
             type |-> type,
             operator |-> operators[FloorRand(d[k + 3], Len(operators)) + 1],
             available |-> Available(d[k + 4], chargers)],
         used |-> k + 4]

\* generateHighwayStation
HighwayStation(name, coords, id, d) ==
    LET type == IF RandLess(d[1], 2, 5) THEN "superfast" ELSE "fast"
        chargers == IF type = "superfast" THEN 12 + FloorRand(d[2], 12)
                    ELSE 6 + FloorRand(d[2], 8)
    IN  [station |->
            [id |-> HighwayId(id),
             name |-> <<name, "Charging Plaza">>,
             coordinates |-> [center |-> coords, lng |-> RandomValue(d[3]),
                              lat |-> RandomValue(d[4])],
             chargers |-> chargers,
             type |-> type,
             operator |-> operators[FloorRand(d[5], Len(operators)) + 1],
             available |-> Available(d[6], chargers)],
         used |-> 6]

\* The most calls of random() one station makes.
MaxStationDraws == 8

\* stationId stays where it is after a city.
NextStationIdStuck(stationId, density) == stationId

\* stationId += city.density
NextStationId(stationId, density) == stationId + density

(* ------------------------- stations and keys --------------------------- *)
\* Three stations of the generated set; an id is its sequence of tokens.
StationA == [id |-> <<"station", "-", "0">>, coordinates |-> <<48900, 523700>>]
StationB == [id |-> <<"station", "-", "1">>, coordinates |-> <<44800, 519200>>]
StationH == [id |-> <<"highway", "-", "0">>, coordinates |-> <<51200, 520900>>]
chargingStations == {StationA, StationB, StationH}

\* The key written with the origin on both sides.
getRouteKeyFromTwice(fromId, toId) == fromId \o <<"-">> \o fromId

\* `${fromId}-${toId}`
getRouteKey(fromId, toId) == fromId \o <<"-">> \o toId

\* Number.prototype.toFixed(4) of a coordinate given in 1e-5 degree: the
\* nearest multiple of 1e-4 degree, the larger one on a tie.
toFixed4(x) == (x + 5) \div 10

\* `${start[0].toFixed(4)},${start[1].toFixed(4)}-${end[0].toFixed(4)},${end[1].toFixed(4)}`
getCacheKey(start, end) ==
    <<toFixed4(start[1]), ",", toFixed4(start[2]), "-", toFixed4(end[1]), ",", toFixed4(end[2])>>

\* The geometry the routing service computes for a request.
ServiceRoute(start, end) == [coordinates |-> <<start, end>>]

(* ----------------------- collecting route pairs ------------------------ *)
\* CollectStep pushing the reverse pair without looking at seenKeys.
CollectStepAlwaysReverse(acc, route) ==
    LET key == getRouteKey(route.from.id, route.to.id)
        reverseKey == getRouteKey(route.to.id, route.from.id)
        fwd == IF key \notin acc.seen
                 THEN [pairs |-> Append(acc.pairs, [from |-> route.from, to |-> route.to, key |-> key]),
                       seen |-> acc.seen \cup {key}]
                 ELSE acc
    IN  [pairs |-> Append(fwd.pairs, [from |-> route.to, to |-> route.from, key |-> reverseKey]),
         seen |-> fwd.seen \cup {reverseKey}]

\* One iteration of evRoutes.forEach: push the pair and its reverse unless seen.
CollectStep(acc, route) ==
    LET key == getRouteKey(route.from.id, route.to.id)
        reverseKey == getRouteKey(route.to.id, route.from.id)
        fwd == IF key \notin acc.seen
                 THEN [pairs |-> Append(acc.pairs, [from |-> route.from, to |-> route.to, key |-> key]),
                       seen |-> acc.seen \cup {key}]
                 ELSE acc
    IN  IF reverseKey \notin fwd.seen
          THEN [pairs |-> Append(fwd.pairs, [from |-> route.to, to |-> route.from, key |-> reverseKey]),
                seen |-> fwd.seen \cup {reverseKey}]
          ELSE fwd

RECURSIVE CollectFrom(_, _)
CollectFrom(acc, routes) ==
    IF routes = <<>> THEN acc ELSE CollectFrom(CollectStep(acc, Head(routes)), Tail(routes))

CollectRoutePairs(routes) == CollectFrom([pairs |-> <<>>, seen |-> {}], routes).pairs

\* s.id.startsWith('highway-')
IsHighway(s) == s.id[1] = "highway"

\* The demand edges generateEVRouteNetwork can hand over: lists of at most
\* MaxEdges directed edges between distinct stations, repetitions allowed.
\* Only the highway corridor rule starts edges at a highway station, and it
\* ends them at highway stations.
Edges ==
    {e \in [from : chargingStations, to : chargingStations] :
        /\ e.from.id # e.to.id
        /\ IsHighway(e.from) => IsHighway(e.to)}

RECURSIVE SeqsUpTo(_, _)
SeqsUpTo(S, n) ==
    IF n = 0 THEN {<<>>}
    ELSE LET shorter == SeqsUpTo(S, n - 1)
         IN  shorter \cup {Append(s, e) : s \in {t \in shorter : Len(t) = n - 1}, e \in S}

Networks == SeqsUpTo(Edges, MaxEdges)

(* ------------------------ fetchRoute (routeService) -------------------- *)
\* fetchRoute that never finds its key in the cache.
FetchRouteHitNever(cache, start, end) == FALSE

\* fetchRoute that asks again after a failed answer.
FetchRouteAnswerRetry(cache, start, end, resp) ==
    IF resp = "ok"
      THEN [cache |-> MapSet(cache, getCacheKey(start, end), ServiceRoute(start, end)),
            result |-> ServiceRoute(start, end), again |-> FALSE]
      ELSE [cache |-> cache, result |-> NoRoute, again |-> resp \in {"429", "500", "exc"}]

\* routeCache.has(cacheKey)
FetchRouteHit(cache, start, end) == MapHas(cache, getCacheKey(start, end))

\* fetchRoute after `await fetch(url)`: the value returned, the cache, and
\* whether the request is sent again (it never is).
FetchRouteAnswer(cache, start, end, resp) ==
    IF resp = "ok"
      THEN [cache |-> MapSet(cache, getCacheKey(start, end), ServiceRoute(start, end)),
            result |-> ServiceRoute(start, end), again |-> FALSE]
      ELSE [cache |-> cache, result |-> NoRoute, again |-> FALSE]

(* -------------------------- fetchRouteWithRetry ------------------------ *)
\* RetryStep with the rate-limit branch sleeping the flat delay.
RetryStepFlat429(attempt, maxRetries, retryDelay, resp, start, end) ==
    IF resp \in {"429", "500", "exc"}
      THEN IF attempt < maxRetries
             THEN [kind |-> "sleep", wait |-> retryDelay, value |-> NoRoute]
             ELSE [kind |-> "return", wait |-> 0, value |-> NoRoute]
      ELSE IF resp = "empty"
             THEN [kind |-> "return", wait |-> 0, value |-> NoRoute]
             ELSE [kind |-> "return", wait |-> 0, value |-> ServiceRoute(start, end)]

\* RetryStep with the retry guard off by one (attempt <= maxRetries).
RetryStepOneMore(attempt, maxRetries, retryDelay, resp, start, end) ==
    IF resp \in {"429", "500", "exc"}
      THEN IF attempt <= maxRetries
             THEN [kind |-> "sleep",
                   wait |-> IF resp = "429" THEN retryDelay * Pow2(attempt) ELSE retryDelay,
                   value |-> NoRoute]
             ELSE [kind |-> "return", wait |-> 0, value |-> NoRoute]
      ELSE IF resp = "empty"
             THEN [kind |-> "return", wait |-> 0, value |-> NoRoute]
             ELSE [kind |-> "return", wait |-> 0, value |-> ServiceRoute(start, end)]

\* What one pass of the for loop does with the answer to attempt `attempt`:
\* sleep and continue, or return.
RetryStep(attempt, maxRetries, retryDelay, resp, start, end) ==
    CASE resp = "429" ->
            IF attempt < maxRetries
              THEN [kind |-> "sleep", wait |-> retryDelay * Pow2(attempt), value |-> NoRoute]
              ELSE [kind |-> "return", wait |-> 0, value |-> NoRoute]
      [] resp \in {"500", "exc"} ->
            IF attempt < maxRetries
              THEN [kind |-> "sleep", wait |-> retryDelay, value |-> NoRoute]
              ELSE [kind |-> "return", wait |-> 0, value |-> NoRoute]
      [] resp = "empty" -> [kind |-> "return", wait |-> 0, value |-> NoRoute]
      [] OTHER -> [kind |-> "return", wait |-> 0, value |-> ServiceRoute(start, end)]

IdleCall == [pc |-> "idle", attempt |-> 0, result |-> NoRoute]

\* The call after the answer `resp` to its request in flight.
CallAfterResponse(c, maxRetries, retryDelay, resp, start, end) ==
    LET s == RetryStep(c.attempt, maxRetries, retryDelay, resp, start, end)
    IN  IF s.kind = "sleep"
          THEN [c EXCEPT !.pc = "sleeping"]
          ELSE [pc |-> "done", attempt |-> 0, result |-> s.value]

\* `continue` after the sleep: attempt++ and the next request.
CallAfterSleep(c) == [c EXCEPT !.pc = "inflight", !.attempt = c.attempt + 1]

(* --------------------------- the trip expander ------------------------- *)
\* The value random() returns when it leaves the generator in `state`.
DRandom(state) == DDiv(DFromInt(state), DFromInt(RandMax))

\* A decimal literal num/den of the source, as the double it denotes.
Decimal(x) == DDiv(DFromInt(x.num), DFromInt(x.den))

DMax(a, b) == IF DCmp(a, b) >= 0 THEN a ELSE b

\* a - b when a >= b; a smaller a is only ever compared with 5 by Math.max
DMinusOrZero(a, b) == IF DCmp(a, b) >= 0 THEN DSub(a, b) ELSE DZero

evTypes ==
    << [type |-> "sedan", brand |-> "Tesla Model 3", color |-> <<255, 255, 255>>,
        speedMult |-> [num |-> 11, den |-> 10], rangeKm |-> 450],
       [type |-> "sedan", brand |-> "Tesla Model 3", color |-> <<200, 0, 0>>,
        speedMult |-> [num |-> 11, den |-> 10], rangeKm |-> 450],
       [type |-> "suv", brand |-> "Tesla Model Y", color |-> <<50, 50, 50>>,
        speedMult |-> [num |-> 1, den |-> 1], rangeKm |-> 400],
       [type |-> "suv", brand |-> "Tesla Model X", color |-> <<0, 0, 150>>,
        speedMult |-> [num |-> 95, den |-> 100], rangeKm |-> 500],
       [type |-> "hatchback", brand |-> "VW ID.3", color |-> <<0, 180, 255>>,
        speedMult |-> [num |-> 1, den |-> 1], rangeKm |-> 350],
       [type |-> "suv", brand |-> "VW ID.4", color |-> <<100, 100, 100>>,
        speedMult |-> [num |-> 95, den |-> 100], rangeKm |-> 380],
       [type |-> "sedan", brand |-> "BMW i4", color |-> <<0, 100, 200>>,
        speedMult |-> [num |-> 105, den |-> 100], rangeKm |-> 400],
       [type |-> "suv", brand |-> "Audi e-tron", color |-> <<80, 80, 80>>,
        speedMult |-> [num |-> 9, den |-> 10], rangeKm |-> 350],
       [type |-> "hatchback", brand |-> "Hyundai Ioniq 5", color |-> <<180, 180, 180>>,
        speedMult |-> [num |-> 1, den |-> 1], rangeKm |-> 380],
       [type |-> "suv", brand |-> "Kia EV6", color |-> <<0, 150, 100>>,
        speedMult |-> [num |-> 1, den |-> 1], rangeKm |-> 400],
       [type |-> "sedan", brand |-> "Polestar 2", color |-> <<255, 200, 0>>,
        speedMult |-> [num |-> 105, den |-> 100], rangeKm |-> 400],
       [type |-> "hatchback", brand |-> "Nissan Leaf", color |-> <<0, 100, 150>>,
        speedMult |-> [num |-> 9, den |-> 10], rangeKm |-> 280],
       [type |-> "van", brand |-> "Mercedes eVito", color |-> <<255, 200, 0>>,
        speedMult |-> [num |-> 85, den |-> 100], rangeKm |-> 250],
       [type |-> "van", brand |-> "VW e-Crafter", color |-> <<255, 140, 0>>,
        speedMult |-> [num |-> 8, den |-> 10], rangeKm |-> 200],
       [type |-> "van", brand |-> "Rivian EDV", color |-> <<0, 50, 100>>,
        speedMult |-> [num |-> 85, den |-> 100], rangeKm |-> 300] >>

IsVan(ev) == ev.type = "van"

IsNotVan(ev) == ev.type # "van"

\* evTypes.filter by trip type
EligibleEVs(tripType) ==
    IF tripType = "delivery" THEN SelectSeq(evTypes, IsVan) ELSE SelectSeq(evTypes, IsNotVan)

getBatteryColor(batteryPercent) ==
    IF DCmp(batteryPercent, DFromInt(60)) > 0 THEN <<0, 255, 136>>
    ELSE IF DCmp(batteryPercent, DFromInt(30)) > 0 THEN <<255, 200, 0>>
    ELSE <<255, 80, 80>>

MinOf(a, b) == IF a < b THEN a ELSE b

\* name.slice(0, 10)
Slice10(name) == SubSeq(name, 1, MinOf(10, Len(name)))

LOOP_DURATION == 1800

\* (route.duration / 60) * 20 / ev.speedMult
ScaledDuration(route, ev) ==
    DDiv(DMul(DDiv(DFromInt(route.duration), DFromInt(60)), DFromInt(20)), Decimal(ev.speedMult))

\* The step taken over the number of waypoints instead of the number of legs.
TimePerStepPerWaypoint(scaledDuration, numWaypoints) ==
    IF numWaypoints > 1 THEN DDiv(scaledDuration, DFromInt(numWaypoints)) ELSE DZero

\* numWaypoints > 1 ? scaledDuration / (numWaypoints - 1) : 0
TimePerStep(scaledDuration, numWaypoints) ==
    IF numWaypoints > 1 THEN DDiv(scaledDuration, DFromInt(numWaypoints - 1)) ELSE DZero

\* (startBattery + Math.max(5, startBattery - batteryUsed)) / 2
AvgBattery(startBattery, batteryUsed) ==
    DDiv(DAdd(startBattery, DMax(DFromInt(5), DMinusOrZero(startBattery, batteryUsed))),
         DFromInt(2))

\* getBatteryColor(avgBattery) of a trip; `state` is the generator state
\* behind the one call of random().
BatteryColor(route, ev, state) ==
    getBatteryColor(
        AvgBattery(DAdd(DFromInt(30), DMul(DRandom(state), DFromInt(60))),
                   DMul(DDiv(DDiv(DFromInt(route.distance), DFromInt(1000)),
                             DFromInt(ev.rangeKm)),
                        DFromInt(100))))

\* batteryColor.map(c => Math.min(255, c + 80))
Brightened(batteryColor) == [c \in 1..3 |-> MinOf(255, batteryColor[c] + 80)]

\* The colour generateEVTripFromRoute gives a trip.
TripColor(route, ev, tripType, state) ==
    IF tripType = "delivery" THEN <<255, 160, 0>>
    ELSE IF tripType = "roadtrip" THEN BatteryColor(route, ev, state)
    ELSE Brightened(BatteryColor(route, ev, state))

\* coordinates.map((coord, i) => ({coordinates: coord,
\*                                 timestamp: startTime + i * timePerStep}))
Waypoints(coordinates, startTime, timePerStep) ==
    [w \in 1..Len(coordinates) |->
        [coordinates |-> coordinates[w],
         timestamp |-> DAdd(startTime, DMul(DFromInt(w - 1), timePerStep))]]

\* generateEVTripFromRoute; `seed` is the generator state before the call.
\* Beside the trip returned and the generator state left, the result keeps
\* the argument startTime of the call and the time startTime + scaledDuration
\* at which the trip is due to end.
generateEVTripFromRoute(route, startTime, ev, tripId, evRoute, seed) ==
    [trip |->
        [id |-> <<"ev", tripId, Slice10(evRoute.from.name), Slice10(evRoute.to.name)>>,
         waypoints |->
            Waypoints(route.coordinates, startTime,
                      TimePerStep(ScaledDuration(route, ev), Len(route.coordinates))),
         vehicle |-> ev.type,
         color |-> TripColor(route, ev, evRoute.tripType, NextSeed(seed))],
     seed |-> NextSeed(seed),
     startTime |-> startTime,
     endTime |-> DAdd(startTime, ScaledDuration(route, ev))]

\* One trip more than the weight.
NumTripsOneMore(evRoute) == evRoute.weight + 1

\* const numTrips = evRoute.weight
NumTrips(evRoute) == evRoute.weight

\* (i * (LOOP_DURATION / numTrips) + random() * 50) % LOOP_DURATION
StartTime(i, numTrips, state) ==
    DMod(DAdd(DMul(DFromInt(i), DDiv(DFromInt(LOOP_DURATION), DFromInt(numTrips))),
              DMul(DRandom(state), DFromInt(50))),
         LOOP_DURATION)

\* (startTime + LOOP_DURATION / 2 + random() * 200) % LOOP_DURATION
ReturnStartTime(startTime, state) ==
    DMod(DAdd(DAdd(startTime, DDiv(DFromInt(LOOP_DURATION), DFromInt(2))),
              DMul(DRandom(state), DFromInt(200))),
         LOOP_DURATION)

\* eligibleEVs[Math.floor(random() * eligibleEVs.length)]
PickEV(eligibleEVs, state) == eligibleEVs[FloorRand(state, Len(eligibleEVs)) + 1]

\* The edge the return trip is generated for.
ReturnRoute(evRoute) ==
    [from |-> evRoute.to, to |-> evRoute.from,
     tripType |-> evRoute.tripType, weight |-> evRoute.weight]

\* The forward trip of one pass, when the table has the forward key; s2 is
\* the generator state after the vehicle was picked.
ForwardTrip(evRoute, geoms, startTime, ev, tripId, s2) ==
    IF MapHas(geoms, getRouteKey(evRoute.from.id, evRoute.to.id))
      THEN generateEVTripFromRoute(geoms[getRouteKey(evRoute.from.id, evRoute.to.id)],
                                   startTime, ev, tripId, evRoute, s2)
      ELSE [seed |-> s2]

PushedForward(evRoute, geoms, fwd) ==
    IF MapHas(geoms, getRouteKey(evRoute.from.id, evRoute.to.id))
      THEN <<[trip |-> fwd.trip, direction |-> "forward",
              startTime |-> fwd.startTime, endTime |-> fwd.endTime]>>
      ELSE <<>>

\* The return trip of one pass; s4 is the generator state behind the draw
\* of returnStartTime.
ReturnTrip(evRoute, geoms, eligibleEVs, startTime, tripId, s4) ==
    generateEVTripFromRoute(geoms[getRouteKey(evRoute.to.id, evRoute.from.id)],
                            ReturnStartTime(startTime, s4),
                            PickEV(eligibleEVs, NextSeed(s4)),
                            tripId, ReturnRoute(evRoute), NextSeed(s4))

PushedReturn(pushed, back) ==
    [pushed |-> Append(pushed, [trip |-> back.trip, direction |-> "return",
                                startTime |-> back.startTime,
                                endTime |-> back.endTime]),
     seed |-> back.seed]

\* A return trip only behind a forward trip.
ReturnPassBehindForward(evRoute, geoms, eligibleEVs, startTime, tripId, pushed, s3) ==
    IF /\ RandGreater(s3, 3, 10)
       /\ MapHas(geoms, getRouteKey(evRoute.to.id, evRoute.from.id))
       /\ MapHas(geoms, getRouteKey(evRoute.from.id, evRoute.to.id))
      THEN PushedReturn(pushed,
             ReturnTrip(evRoute, geoms, eligibleEVs, startTime,
                        tripId + Len(pushed), NextSeed(s3)))
      ELSE [pushed |-> pushed, seed |-> s3]

\* if (random() > 0.3 && routeGeometries.has(reverseKey)) { ... }; s3 is the
\* generator state behind that draw.
ReturnPass(evRoute, geoms, eligibleEVs, startTime, tripId, pushed, s3) ==
    IF RandGreater(s3, 3, 10) /\ MapHas(geoms, getRouteKey(evRoute.to.id, evRoute.from.id))
      THEN PushedReturn(pushed,
             ReturnTrip(evRoute, geoms, eligibleEVs, startTime,
                        tripId + Len(pushed), NextSeed(s3)))
      ELSE [pushed |-> pushed, seed |-> s3]

ForwardPass(evRoute, geoms, eligibleEVs, startTime, tripId, fwd) ==
    ReturnPass(evRoute, geoms, eligibleEVs, startTime, tripId,
               PushedForward(evRoute, geoms, fwd), NextSeed(fwd.seed))

\* The pass from the start time drawn behind the generator state s1.
TimedPass(evRoute, geoms, eligibleEVs, startTime, tripId, s1) ==
    ForwardPass(evRoute, geoms, eligibleEVs, startTime, tripId,
                ForwardTrip(evRoute, geoms, startTime,
                            PickEV(eligibleEVs, NextSeed(s1)), tripId, NextSeed(s1)))

\* One pass of the loop body of generateTripData for the edge evRoute: the
\* trips it pushes, each with the direction it came from, and the generator
\* state it leaves.
TripLoopBody(evRoute, i, geoms, tripId, seed) ==
    TimedPass(evRoute, geoms, EligibleEVs(evRoute.tripType),
              StartTime(i, NumTrips(evRoute), NextSeed(seed)), tripId, NextSeed(seed))

VARIABLES
    rcCall,        \* the single call of fetchRouteWithRetry under test
    rcMaxRetries,  \* its maxRetries argument
    rcRetryDelay,  \* its retryDelay argument
    rcHist,        \* the answers it received, in order
    rcWaits,       \* the sleeps it made, in order
    rcRequests     \* the requests it issued

retryVars == <<rcCall, rcMaxRetries, rcRetryDelay, rcHist, rcWaits, rcRequests>>

VARIABLES
    program,       \* which entry point runs: "retry", "offline", "live", "resolver", ...
    token,         \* whether VITE_MAPBOX_TOKEN is set
    network,       \* the edge list generateEVRouteNetwork returns
    netActivity    \* whether any request was sent to the routing service

envVars == <<program, token, network, netActivity>>

VARIABLES
    offPc,             \* "start", "exited", "batch", "delay", "interrupted" or "done"
    exitCode,          \* -1 while running, else the exit status
    errorLogged,       \* console.error of the missing-token check
    stationsGenerated, \* main step 1 ran
    offRoutePairs,     \* routePairs of main
    offI,              \* 0-based loop index i of the batch loop
    offCalls,          \* the fetchRouteWithRetry call of each route pair
    offGeoms,          \* routeGeometries of main
    fetched,
    failed,
    offResolved,       \* the route keys the resolver was invoked for, in order
    offDelays,         \* inter-batch sleeps that have elapsed
    outputFile         \* precomputedRoutes.json: <<>> until written, else <<table>>

offVars == <<offPc, exitCode, errorLogged, stationsGenerated, offRoutePairs, offI, offCalls,
             offGeoms, fetched, failed, offResolved, offDelays, outputFile>>

VARIABLES
    routeCache,    \* routeCache of routeService.ts
    resCalls,      \* calls of fetchRoute made through the exported API
    resSent        \* requests sent so far, per exact coordinate pair

resVars == <<resCalls, resSent>>

VARIABLES
    mounted,        \* DeckGLMap is mounted
    activeLayer,    \* state of DeckGLMap, as of the last render
    routesLoading,  \* state of DeckGLMap, as of the last render
    pendingLoading, \* routesLoading after the setRoutesLoading calls not yet rendered
    tripsRefreshes, \* calls of refreshTripData
    routesLoaded,   \* module variable of tripData.ts
    evRoutes,       \* module variable of tripData.ts
    liveGeoms,      \* routeGeometries of tripData.ts
    invs,           \* the invocations of initializeRoutes
    invCount        \* how many invocations have started

uiVars == <<mounted, activeLayer, routesLoading, pendingLoading, tripsRefreshes>>
loadVars == <<routesLoaded, evRoutes, liveGeoms, invs, invCount>>
liveVars == <<uiVars, loadVars>>

VARIABLES
    prngStart,     \* the seed handed to seededRandom
    prngSeed,      \* the variable `seed` captured by the generator
    prngPrev,      \* `seed` before the last call
    prngOut,       \* the value the last call returned
    prngCalls      \* calls made so far

prngVars == <<prngStart, prngSeed, prngPrev, prngOut, prngCalls>>

VARIABLES
    genVersion,    \* "module": chargingStations.ts, "script": generateRoutes.ts
    genRandom,     \* the variable `seed` of the generator `random`
    genPc,         \* "idle", "city", "highway" or "return"
    genStations,   \* `stations` of the running generateChargingStations
    genStationId,  \* `stationId`
    genCity,       \* 1-based index of the city hub being generated
    genI,          \* loop index i of generateStationsAroundCity
    genHw,         \* index i of highwayStations.forEach
    genResults     \* the arrays returned so far, one per call

stVars == <<genVersion, genRandom, genPc, genStations, genStationId, genCity, genI, genHw,
            genResults>>

VARIABLES
    probeTape,     \* the values an injected `random` returns, in order
    probe          \* the station built from them, <<>> before

probeVars == <<probeTape, probe>>

VARIABLES
    keyIds,        \* four station ids: the ordered pairs (1, 2) and (3, 4)
    routeKeys      \* <<>>, or getRouteKey of (1, 2), of (2, 1) and of (3, 4)

keyVars == <<keyIds, routeKeys>>

VARIABLES
    tripRoutes,    \* evRoutes when generateTripData is called
    tripGeoms,     \* routeGeometries when generateTripData is called
    tripPc,        \* "idle", "loop" or "done"
    tripRandom,    \* the variable `seed` of the generator `random`
    trips,         \* `trips`
    tripOrigin,    \* for each trip: its edge, direction, startTime and due end time
    tripId,        \* `tripId`
    tripEdge,      \* 1-based index of the edge evRoutes.forEach is at
    tripI          \* loop index i

tripVars == <<tripRoutes, tripGeoms, tripPc, tripRandom, trips, tripOrigin, tripId, tripEdge,
              tripI>>

VARIABLES
    netVersion,    \* "tripData" (src/data/tripData.ts) or "part_006" (its longer copy)
    netStations,   \* chargingStations
    netPc,         \* "idle", "running" or "done"
    netRule,       \* the rule whose forEach is running, 1 to 8
    netIdx,        \* 1-based index of the station that forEach is at
    netRoutes,     \* `routes`
    netRuleOf      \* for each edge of `routes`, the rule that pushed it

netVars == <<netVersion, netStations, netPc, netRule, netIdx, netRoutes, netRuleOf>>

VARIABLES
    rsCity,        \* the index in cityHubs of the city generateStationsAroundCity is called for
    rsCount,       \* its argument count
    rsPc,          \* "idle", "sample", "sampled" or "done"
    rsI,           \* the variable i of the for loop
    rsAttempts,    \* the variable attempts
    rsLng,         \* the variable lng
    rsStations     \* for each station pushed: its longitude, the attempts made, whether clamped

rsVars == <<rsCity, rsCount, rsPc, rsI, rsAttempts, rsLng, rsStations>>

VARIABLES
    currentTime,    \* state of DeckGLMap, in thousandths
    isPlaying,      \* state of DeckGLMap
    animationSpeed, \* state of DeckGLMap, in thousandths
    animationRef,   \* whether a frame requested by the animation effect is pending
    lastTimeIsNow,  \* whether lastTime still holds performance.now() of the effect
    animFrames      \* the frames run so far

animVars == <<currentTime, isPlaying, animationSpeed, animationRef, lastTimeIsNow, animFrames>>

VARIABLES
    twinGeoms,     \* routeGeometries of a second run: tripGeoms without one forward key
    twinRandom,    \* the variable `seed` of the generator of the second run
    twinTrips,     \* `trips` of the second run
    twinOrigin,    \* for each trip of the second run: its edge, direction and times
    twinId         \* `tripId` of the second run

twinVars == <<twinGeoms, twinRandom, twinTrips, twinOrigin, twinId>>

\* The generators and the trip expander, which run without the resolver.
genVars == <<prngVars, stVars, probeVars, keyVars, tripVars, netVars, rsVars, animVars, twinVars>>

routeVars == <<retryVars, envVars, offVars, routeCache, resVars, liveVars>>

vars == <<routeVars, genVars>>

notRetry == <<envVars, offVars, routeCache, resVars, liveVars, genVars>>
notOffline == <<retryVars, routeCache, resVars, liveVars, genVars>>
notResolver == <<retryVars, offVars, liveVars, genVars>>
notLive == <<retryVars, offVars, resVars, genVars>>
notPrng == <<routeVars, stVars, probeVars, keyVars, tripVars, netVars, rsVars, animVars, twinVars>>
notStations == <<routeVars, prngVars, probeVars, keyVars, tripVars, netVars, rsVars, animVars, twinVars>>
notProbe == <<routeVars, prngVars, stVars, keyVars, tripVars, netVars, rsVars, animVars, twinVars>>
notKeys == <<routeVars, prngVars, stVars, probeVars, tripVars, netVars, rsVars, animVars, twinVars>>
notTrips == <<routeVars, prngVars, stVars, probeVars, keyVars, netVars, rsVars, animVars, twinVars>>
notTwin == <<routeVars, prngVars, stVars, probeVars, keyVars, netVars, rsVars, animVars>>
notNetwork == <<routeVars, prngVars, stVars, probeVars, keyVars, tripVars, rsVars, animVars, twinVars>>
notResample == <<routeVars, prngVars, stVars, probeVars, keyVars, tripVars, netVars, animVars,
                 twinVars>>
notAnimation == <<retryVars, envVars, offVars, routeCache, resVars, routesLoading, pendingLoading,
                  tripsRefreshes, loadVars, prngVars, stVars, probeVars, keyVars, tripVars,
                  netVars, rsVars, twinVars>>

PrngIdle ==
    /\ prngStart = 0
    /\ prngSeed = 0
    /\ prngPrev = 0
    /\ prngOut = RandomValue(0)
    /\ prngCalls = 0

\* const random = seededRandom(123)
StationSeed == 123

StationsIdle ==
    /\ genVersion = "module"
    /\ genRandom = StationSeed
    /\ genPc = "idle"
    /\ genStations = <<>>
    /\ genStationId = 0
    /\ genCity = 1
    /\ genI = 0
    /\ genHw = 0
    /\ genResults = <<>>

ProbeIdle ==
    /\ probeTape = <<>>
    /\ probe = <<>>

KeysIdle ==
    /\ keyIds = <<>>
    /\ routeKeys = <<>>

\* const random = seededRandom(42)
TripSeed == 42

TripsIdle ==
    /\ tripRoutes = <<>>
    /\ tripGeoms = EmptyMap
    /\ tripPc = "idle"
    /\ tripRandom = TripSeed
    /\ trips = <<>>
    /\ tripOrigin = <<>>
    /\ tripId = 0
    /\ tripEdge = 1
    /\ tripI = 0

NetworkIdle ==
    /\ netVersion = "tripData"
    /\ netStations = <<>>
    /\ netPc = "idle"
    /\ netRule = 1
    /\ netIdx = 1
    /\ netRoutes = <<>>
    /\ netRuleOf = <<>>

ResampleIdle ==
    /\ rsCity = 1
    /\ rsCount = 0
    /\ rsPc = "idle"
    /\ rsI = 0
    /\ rsAttempts = 0
    /\ rsLng = DZero
    /\ rsStations = <<>>

TwinIdle ==
    /\ twinGeoms = EmptyMap
    /\ twinRandom = TripSeed
    /\ twinTrips = <<>>
    /\ twinOrigin = <<>>
    /\ twinId = 0

\* useState(0), useState(true), useState(0.50)
AnimationIdle ==
    /\ currentTime = 0
    /\ isPlaying = TRUE
    /\ animationSpeed = 500
    /\ animationRef = FALSE
    /\ lastTimeIsNow = FALSE
    /\ animFrames = 0

GenIdle ==
    /\ PrngIdle /\ StationsIdle /\ ProbeIdle /\ KeysIdle /\ TripsIdle /\ NetworkIdle
    /\ ResampleIdle /\ AnimationIdle /\ TwinIdle

RetryIdle ==
    /\ rcCall = IdleCall
    /\ rcMaxRetries = DefaultMaxRetries
    /\ rcRetryDelay = DefaultRetryDelay
    /\ rcHist = <<>>
    /\ rcWaits = <<>>
    /\ rcRequests = 0

\* Coordinate pairs handed to the exported fetchRoute: the first two differ
\* only in the fifth decimal of the start longitude.
CoordPairs ==
    { <<<<48900, 523700>>, <<44800, 519200>>>>,
      <<<<48901, 523700>>, <<44800, 519200>>>>,
      <<<<44800, 519200>>, <<48900, 523700>>>> }

FreeCall ==
    [pc |-> "free", start |-> <<0, 0>>, end |-> <<0, 0>>, result |-> NoRoute,
     hit |-> FALSE, sent |-> 0, resp |-> "none", prior |-> {}]

ResolverIdle ==
    /\ routeCache = EmptyMap
    /\ resCalls = [c \in 1..MaxCalls |-> FreeCall]
    /\ resSent = [cp \in CoordPairs |-> 0]

LayerTypes == {"columns", "scatter", "arcs", "trips", "all"}

NoInvocation ==
    [pc |-> "none", i |-> 0, routePairs |-> <<>>, fetched |-> 0, calls |-> <<>>, delays |-> 0]

LiveIdle ==
    /\ mounted = FALSE
    /\ activeLayer = "trips"
    /\ routesLoading = FALSE
    /\ pendingLoading = FALSE
    /\ tripsRefreshes = 0
    /\ routesLoaded = FALSE
    /\ evRoutes = <<>>
    /\ liveGeoms = EmptyMap
    /\ invs = [n \in 1..MaxInv |-> NoInvocation]
    /\ invCount = 0

OfflineIdle ==
    /\ offPc = "start"
    /\ exitCode = -1
    /\ errorLogged = FALSE
    /\ stationsGenerated = FALSE
    /\ offRoutePairs = <<>>
    /\ offI = 0
    /\ offCalls = <<>>
    /\ offGeoms = EmptyMap
    /\ fetched = 0
    /\ failed = 0
    /\ offResolved = <<>>
    /\ offDelays = 0
    /\ outputFile = <<>>

RetryStart == <<48900, 523700>>
RetryEnd == <<44800, 519200>>

RetryInit ==
    /\ program = "retry"
    /\ token = TRUE
    /\ network = <<>>
    /\ netActivity = FALSE
    /\ OfflineIdle
    /\ ResolverIdle
    /\ LiveIdle
    /\ rcCall = IdleCall
    /\ rcMaxRetries \in 0..DefaultMaxRetries
    /\ rcRetryDelay \in RetryDelays
    /\ rcHist = <<>>
    /\ rcWaits = <<>>
    /\ rcRequests = 0
    /\ GenIdle

\* fetchRouteWithRetry(start, end, maxRetries, retryDelay) up to its first await.
RetryCall ==
    /\ rcCall.pc = "idle"
    /\ rcCall' = [rcCall EXCEPT !.pc = "inflight"]
    /\ rcRequests' = rcRequests + 1
    /\ UNCHANGED <<rcMaxRetries, rcRetryDelay, rcHist, rcWaits, notRetry>>

\* The service answers the request in flight.
RetryRespond(resp) ==
    /\ rcCall.pc = "inflight"
    /\ LET s == RetryStep(rcCall.attempt, rcMaxRetries, rcRetryDelay, resp, RetryStart, RetryEnd)
       IN  /\ rcCall' = CallAfterResponse(rcCall, rcMaxRetries, rcRetryDelay, resp, RetryStart, RetryEnd)
           /\ rcWaits' = IF s.kind = "sleep" THEN Append(rcWaits, s.wait) ELSE rcWaits
    /\ rcHist' = Append(rcHist, resp)
    /\ UNCHANGED <<rcMaxRetries, rcRetryDelay, rcRequests, notRetry>>

\* The sleep is over.
RetryWake ==
    /\ rcCall.pc = "sleeping"
    /\ rcCall' = CallAfterSleep(rcCall)
    /\ rcRequests' = rcRequests + 1
    /\ UNCHANGED <<rcMaxRetries, rcRetryDelay, rcHist, rcWaits, notRetry>>

RetryNext ==
    \/ RetryCall
    \/ \E resp \in Responses : RetryRespond(resp)
    \/ RetryWake

SpecRetry == RetryInit /\ [][RetryNext]_vars

Failures == {"429", "500", "exc"}

\* C1: the wait after failed attempt k (0-based, k < maxRetries) is
\* retryDelay * 2^k after a 429 and retryDelay after any other failure; two
\* 429s followed by a success give the geometry after 2 retries with waits
\* retryDelay, 2 * retryDelay; HTTP 500 throughout with maxRetries = 3 gives
\* null after a total wait of 3 * retryDelay.
C1_BackoffPolicy ==
    /\ \A k \in 1..Len(rcHist) :
          (rcHist[k] \in Failures /\ k - 1 < rcMaxRetries)
             => /\ Len(rcWaits) >= k
                /\ rcWaits[k] = IF rcHist[k] = "429"
                                  THEN rcRetryDelay * Pow2(k - 1)
                                  ELSE rcRetryDelay
    /\ Len(rcWaits) <= Len(rcHist)
    /\ rcHist = <<"429", "429", "ok">>
          => /\ rcCall.pc = "done"
             /\ rcCall.result = ServiceRoute(RetryStart, RetryEnd)
             /\ rcRequests = 3
             /\ rcWaits = <<rcRetryDelay, 2 * rcRetryDelay>>
    /\ (rcMaxRetries = 3 /\ rcHist = <<"500", "500", "500", "500">>)
          => /\ rcCall.pc = "done"
             /\ rcCall.result = NoRoute
             /\ SumSeq(rcWaits) = rcRetryDelay * 3

C1_Witness ==
    /\ rcCall.pc = "done"
    /\ rcHist = <<"429", "429", "ok">>

\* C2: one call issues at most maxRetries + 1 requests, ends in a return
\* (never in a thrown exception) of a RouteGeometry or null, has returned
\* once maxRetries + 1 answers arrived, and returns null when all
\* maxRetries + 1 attempts failed.
C2_BoundedAttempts ==
    /\ rcRequests <= rcMaxRetries + 1
    /\ rcCall.attempt <= rcMaxRetries
    /\ rcCall.pc \in {"idle", "inflight", "sleeping", "done"}
    /\ rcCall.pc = "done" => rcCall.result \in {NoRoute, ServiceRoute(RetryStart, RetryEnd)}
    /\ rcCall.pc # "done" => rcCall.result = NoRoute
    /\ Len(rcHist) = rcMaxRetries + 1 => rcCall.pc = "done"
    /\ (Len(rcHist) = rcMaxRetries + 1 /\ \A k \in 1..Len(rcHist) : rcHist[k] \in Failures)
          => rcCall.result = NoRoute

C2_Witness ==
    /\ rcCall.pc = "done"
    /\ rcRequests = rcMaxRetries + 1
    /\ rcMaxRetries = DefaultMaxRetries
    /\ rcHist[Len(rcHist)] = "exc"

(* ------------------- offline script: generateRoutes.ts ----------------- *)
\* The 1-based indices of routePairs.slice(i, i + batchSize).
BatchOf(i, n, batchSize) == {j \in 1..n : i < j /\ j <= i + batchSize}

\* The keys of pairs[lo..hi], in order.
KeysOf(pairs, lo, hi) == [j \in 1..(hi - lo + 1) |-> pairs[lo + j - 1].key]

\* Promise.race in place of Promise.all: settled when the first one is.
BatchSettledAny(calls, batch) == batch = {} \/ \E j \in batch : calls[j].pc = "done"

\* Promise.all over the promises of a batch: settled when every one is.
BatchSettled(calls, batch) == \A j \in batch : calls[j].pc = "done"

\* batch.map(...) up to the first await of each promise: every pair of the
\* batch has its first request in flight.
IssueOffBatch(calls, batch) ==
    [j \in DOMAIN calls |-> IF j \in batch THEN [IdleCall EXCEPT !.pc = "inflight"] ELSE calls[j]]

\* OffComplete storing the route under the key of the next pair in issue
\* order instead of the key of its own pair.
OffCompleteInOrder(pairs, geoms, nFetched, nFailed, idx, route) ==
    IF route # NoRoute
      THEN [geoms |-> MapSet(geoms, pairs[nFetched + nFailed + 1].key, route),
            fetched |-> nFetched + 1, failed |-> nFailed]
      ELSE [geoms |-> geoms, fetched |-> nFetched, failed |-> nFailed + 1]

\* OffComplete without the else branch: a null is not counted.
OffCompleteFailuresUncounted(pairs, geoms, nFetched, nFailed, idx, route) ==
    IF route # NoRoute
      THEN [geoms |-> MapSet(geoms, pairs[idx].key, route), fetched |-> nFetched + 1, failed |-> nFailed]
      ELSE [geoms |-> geoms, fetched |-> nFetched, failed |-> nFailed]

\* The rest of a batch promise once fetchRouteWithRetry returned `route`.
OffComplete(pairs, geoms, nFetched, nFailed, idx, route) ==
    IF route # NoRoute
      THEN [geoms |-> MapSet(geoms, pairs[idx].key, route), fetched |-> nFetched + 1, failed |-> nFailed]
      ELSE [geoms |-> geoms, fetched |-> nFetched, failed |-> nFailed + 1]

\* A token check that never fires.
TokenMissingNever(tok) == FALSE

\* if (!MAPBOX_TOKEN)
TokenMissing(tok) == ~tok

\* The script from its first line to its first await: loadEnv, the token
\* check, and main() up to `await Promise.all` of the first batch.
RunScript ==
    /\ program = "offline"
    /\ offPc = "start"
    /\ IF TokenMissing(token)
         THEN /\ errorLogged' = TRUE
              /\ exitCode' = 1
              /\ offPc' = "exited"
              /\ UNCHANGED <<stationsGenerated, offRoutePairs, offI, offCalls, offGeoms, fetched,
                             failed, offResolved, offDelays, outputFile, netActivity>>
         ELSE LET pairs == CollectRoutePairs(network)
                  n == Len(pairs)
                  batch == BatchOf(0, n, OfflineBatchSize)
              IN  /\ stationsGenerated' = TRUE
                  /\ offRoutePairs' = pairs
                  /\ IF n = 0
                       THEN /\ outputFile' = <<offGeoms>>
                            /\ offPc' = "done"
                            /\ exitCode' = 0
                            /\ UNCHANGED <<offCalls, offResolved, netActivity>>
                       ELSE /\ offCalls' = IssueOffBatch([j \in 1..n |-> IdleCall], batch)
                            /\ offResolved' = KeysOf(pairs, 1, Cardinality(batch))
                            /\ netActivity' = TRUE
                            /\ offPc' = "batch"
                            /\ UNCHANGED <<outputFile, exitCode>>
                  /\ UNCHANGED <<errorLogged, offI, offGeoms, fetched, failed, offDelays>>
    /\ UNCHANGED <<program, token, network, notOffline>>

\* The routing service answers the request of pair j.
OffRespond(j, resp) ==
    /\ program = "offline"
    /\ j \in DOMAIN offCalls
    /\ offCalls[j].pc = "inflight"
    /\ LET pair == offRoutePairs[j]
           c == CallAfterResponse(offCalls[j], DefaultMaxRetries, DefaultRetryDelay, resp,
                                  pair.from.coordinates, pair.to.coordinates)
           after == OffComplete(offRoutePairs, offGeoms, fetched, failed, j, c.result)
       IN  /\ offCalls' = [offCalls EXCEPT ![j] = c]
           /\ IF c.pc = "done"
                THEN /\ offGeoms' = after.geoms
                     /\ fetched' = after.fetched
                     /\ failed' = after.failed
                ELSE UNCHANGED <<offGeoms, fetched, failed>>
    /\ UNCHANGED <<offPc, exitCode, errorLogged, stationsGenerated, offRoutePairs, offI,
                   offResolved, offDelays, outputFile, envVars, notOffline>>

\* The backoff sleep of pair j is over: next attempt.
OffWake(j) ==
    /\ program = "offline"
    /\ j \in DOMAIN offCalls
    /\ offCalls[j].pc = "sleeping"
    /\ offCalls' = [offCalls EXCEPT ![j] = CallAfterSleep(offCalls[j])]
    /\ UNCHANGED <<offPc, exitCode, errorLogged, stationsGenerated, offRoutePairs, offI, offGeoms,
                   fetched, failed, offResolved, offDelays, outputFile, envVars, notOffline>>

\* The loop test with one batch too many counted as done.
MoreBatchesSkipLast(i, n, batchSize) == i + 2 * batchSize < n

\* i + batchSize < routePairs.length: the for loop runs another batch.
MoreBatches(i, n, batchSize) == i + batchSize < n

\* `await Promise.all(promises)` resumes: progress line, then either the
\* inter-batch sleep or the end of the loop and the write of the JSON file.
OffBatchDone ==
    /\ program = "offline"
    /\ offPc = "batch"
    /\ BatchSettled(offCalls, BatchOf(offI, Len(offRoutePairs), OfflineBatchSize))
    /\ IF MoreBatches(offI, Len(offRoutePairs), OfflineBatchSize)
         THEN /\ offPc' = "delay"
              /\ UNCHANGED <<outputFile, exitCode>>
         ELSE /\ outputFile' = <<offGeoms>>
              /\ offPc' = "done"
              /\ exitCode' = 0
    /\ UNCHANGED <<errorLogged, stationsGenerated, offRoutePairs, offI, offCalls, offGeoms,
                   fetched, failed, offResolved, offDelays, envVars, notOffline>>

\* sleep(delayBetweenBatches) is over: i += batchSize and the next batch.
OffDelayElapsed ==
    /\ program = "offline"
    /\ offPc = "delay"
    /\ LET i == offI + OfflineBatchSize
           batch == BatchOf(i, Len(offRoutePairs), OfflineBatchSize)
       IN  /\ offI' = i
           /\ offCalls' = IssueOffBatch(offCalls, batch)
           /\ offResolved' = offResolved \o KeysOf(offRoutePairs, i + 1, i + Cardinality(batch))
    /\ offDelays' = offDelays + 1
    /\ offPc' = "batch"
    /\ UNCHANGED <<exitCode, errorLogged, stationsGenerated, offRoutePairs, offGeoms, fetched,
                   failed, outputFile, envVars, notOffline>>

\* The process is stopped (SIGINT, no handler installed) while main sleeps
\* between two batches: nothing after the sleep runs.
Interrupt ==
    /\ program = "offline"
    /\ offPc = "delay"
    /\ offPc' = "interrupted"
    /\ exitCode' = 130
    /\ UNCHANGED <<errorLogged, stationsGenerated, offRoutePairs, offI, offCalls, offGeoms,
                   fetched, failed, offResolved, offDelays, outputFile, envVars, notOffline>>

OfflineNext ==
    \/ RunScript
    \/ \E j \in DOMAIN offCalls : \E resp \in Responses : OffRespond(j, resp)
    \/ \E j \in DOMAIN offCalls : OffWake(j)
    \/ OffBatchDone
    \/ OffDelayElapsed
    \/ Interrupt

OfflineInit ==
    /\ program = "offline"
    /\ token \in BOOLEAN
    /\ network \in Networks
    /\ netActivity = FALSE
    /\ OfflineIdle
    /\ RetryIdle
    /\ ResolverIdle
    /\ LiveIdle
    /\ GenIdle

SpecOffline == OfflineInit /\ [][OfflineNext]_vars

(* ---------------- fetchRoute called through the exported API ----------- *)
\* A caller starts fetchRoute(start, end); it runs up to `await fetch(url)`
\* or returns the cached geometry.
ResolverCall(c, cp) ==
    /\ program = "resolver"
    /\ resCalls[c].pc = "free"
    /\ \A d \in 1..(c - 1) : resCalls[d].pc # "free"
    /\ LET start == cp[1]
           end == cp[2]
           hit == FetchRouteHit(routeCache, start, end)
           prior == {d \in 1..MaxCalls : /\ resCalls[d].pc = "done"
                                         /\ resCalls[d].result # NoRoute
                                         /\ <<resCalls[d].start, resCalls[d].end>> = cp}
       IN  /\ resCalls' = [resCalls EXCEPT ![c] =
                 [pc |-> IF hit THEN "done" ELSE "inflight",
                  start |-> start, end |-> end,
                  result |-> IF hit THEN routeCache[getCacheKey(start, end)] ELSE NoRoute,
                  hit |-> hit, sent |-> IF hit THEN 0 ELSE 1, resp |-> "none", prior |-> prior]]
           /\ resSent' = IF hit THEN resSent ELSE [resSent EXCEPT ![cp] = @ + 1]
           /\ netActivity' = (netActivity \/ ~hit)
    /\ UNCHANGED <<program, token, network, routeCache, notResolver>>

\* The routing service answers the request of call c.
ResolverRespond(c, resp) ==
    /\ program = "resolver"
    /\ resCalls[c].pc = "inflight"
    /\ LET call == resCalls[c]
           after == FetchRouteAnswer(routeCache, call.start, call.end, resp)
       IN  /\ routeCache' = after.cache
           /\ resCalls' = [resCalls EXCEPT ![c] =
                 [call EXCEPT !.pc = IF after.again THEN "inflight" ELSE "done",
                              !.result = after.result,
                              !.resp = resp,
                              !.sent = IF after.again THEN call.sent + 1 ELSE call.sent]]
           /\ resSent' = IF after.again
                           THEN [resSent EXCEPT ![<<call.start, call.end>>] = @ + 1]
                           ELSE resSent
    /\ UNCHANGED <<envVars, notResolver>>

ResolverNext ==
    \/ \E c \in 1..MaxCalls : \E cp \in CoordPairs : ResolverCall(c, cp)
    \/ \E c \in 1..MaxCalls : \E resp \in Responses : ResolverRespond(c, resp)

ResolverInit ==
    /\ program = "resolver"
    /\ token = TRUE
    /\ network = <<>>
    /\ netActivity = FALSE
    /\ RetryIdle
    /\ OfflineIdle
    /\ ResolverIdle
    /\ LiveIdle
    /\ GenIdle

SpecResolver == ResolverInit /\ [][ResolverNext]_vars

(* ------------- interactive path: DeckGLMap and initializeRoutes -------- *)
\* The answers the routing service gives: without an access token only
\* failures.
AnswersFor(tok) == IF tok THEN Responses ELSE {"429", "500", "exc"}

LiveCallIdle == [pc |-> "idle", result |-> NoRoute]

\* The effect condition without its routesLoading conjunct.
EffectWantsUnguarded(layer, loading) == layer = "trips" /\ ~routesLoaded

\* Condition of the route loading effect.
EffectWants(layer, loading) == layer = "trips" /\ ~routesLoaded /\ ~loading

\* initializeRoutes that loads again on every call.
AlreadyLoadedNever == FALSE

\* if (routesLoaded) return;
AlreadyLoaded == routesLoaded

\* The rest of a batch promise of initializeRoutes once fetchRoute returned.
LiveComplete(geoms, nFetched, key, route) ==
    IF route # NoRoute
      THEN [geoms |-> MapSet(geoms, key, route), fetched |-> nFetched + 1]
      ELSE [geoms |-> geoms, fetched |-> nFetched]

\* batch.map(...) of initializeRoutes for the batch at index i, up to the
\* awaits: a pair whose key is in routeGeometries is skipped, a pair whose
\* cache key is in routeCache gets the cached geometry, every other pair has
\* its request in flight.
LiveIssueBatch(inv, i, geoms, cache) ==
    LET pairs == inv.routePairs
        batch == BatchOf(i, Len(pairs), LiveBatchSize)
        keyOf(j) == getRouteKey(pairs[j].from.id, pairs[j].to.id)
        skipped == {j \in batch : MapHas(geoms, keyOf(j))}
        hits == {j \in batch \ skipped :
                    FetchRouteHit(cache, pairs[j].from.coordinates, pairs[j].to.coordinates)}
        cached(j) == cache[getCacheKey(pairs[j].from.coordinates, pairs[j].to.coordinates)]
        hitKeys == {keyOf(j) : j \in hits}
    IN  [inv |-> [inv EXCEPT
                    !.pc = "batch",
                    !.i = i,
                    !.fetched = inv.fetched + Cardinality(hits),
                    !.calls = [j \in DOMAIN inv.calls |->
                                 IF j \in skipped THEN [pc |-> "done", result |-> NoRoute]
                                 ELSE IF j \in hits THEN [pc |-> "done", result |-> cached(j)]
                                 ELSE IF j \in batch THEN [pc |-> "inflight", result |-> NoRoute]
                                 ELSE inv.calls[j]]],
         geoms |-> [k \in (DOMAIN geoms) \cup hitKeys |->
                      IF k \in hitKeys
                        THEN cached(CHOOSE j \in hits : keyOf(j) = k)
                        ELSE geoms[k]],
         sent |-> (batch \ (skipped \cup hits)) # {}]

\* initializeRoutes() up to its first await.
InitializeRoutesCall ==
    /\ invCount < MaxInv
    /\ invCount' = invCount + 1
    /\ IF AlreadyLoaded
         THEN /\ invs' = [invs EXCEPT ![invCount + 1] = [NoInvocation EXCEPT !.pc = "done"]]
              /\ UNCHANGED <<routesLoaded, evRoutes, liveGeoms, netActivity>>
         ELSE LET pairs == CollectRoutePairs(network)
                  fresh == [NoInvocation EXCEPT !.routePairs = pairs,
                                                !.calls = [j \in 1..Len(pairs) |-> LiveCallIdle]]
                  issued == LiveIssueBatch(fresh, 0, liveGeoms, routeCache)
              IN  /\ evRoutes' = network
                  /\ IF Len(pairs) = 0
                       THEN /\ invs' = [invs EXCEPT ![invCount + 1] = [fresh EXCEPT !.pc = "done"]]
                            /\ routesLoaded' = TRUE
                            /\ UNCHANGED <<liveGeoms, netActivity>>
                       ELSE /\ invs' = [invs EXCEPT ![invCount + 1] = issued.inv]
                            /\ liveGeoms' = issued.geoms
                            /\ netActivity' = (netActivity \/ issued.sent)
                            /\ UNCHANGED routesLoaded

\* The route loading effect, run after a render with the given state.
RouteLoadingEffect(layer, loading) ==
    IF EffectWants(layer, loading)
      THEN /\ pendingLoading' = TRUE
           /\ InitializeRoutesCall
      ELSE /\ pendingLoading' = pendingLoading
           /\ UNCHANGED <<loadVars, netActivity>>

\* First render of DeckGLMap and its effects.
Mount ==
    /\ program = "live"
    /\ ~mounted
    /\ mounted' = TRUE
    /\ RouteLoadingEffect(activeLayer, routesLoading)
    /\ UNCHANGED <<activeLayer, routesLoading, tripsRefreshes, program, token, network,
                   routeCache, notLive>>

\* A click in LayerControls: setActiveLayer(layer), the render that follows
\* (with every state update made so far) and the effect, whose dependency
\* activeLayer changed.
SelectLayer(layer) ==
    /\ program = "live"
    /\ mounted
    /\ layer # activeLayer
    /\ activeLayer' = layer
    /\ routesLoading' = pendingLoading
    /\ RouteLoadingEffect(layer, pendingLoading)
    /\ UNCHANGED <<mounted, tripsRefreshes, program, token, network, routeCache, notLive>>

\* The render caused by setRoutesLoading, and the effect, whose dependency
\* routesLoading changed.
Render ==
    /\ program = "live"
    /\ mounted
    /\ pendingLoading # routesLoading
    /\ routesLoading' = pendingLoading
    /\ RouteLoadingEffect(activeLayer, pendingLoading)
    /\ UNCHANGED <<mounted, activeLayer, tripsRefreshes, program, token, network, routeCache,
                   notLive>>

\* The routing service answers the request of pair j of invocation n.
LiveRespond(n, j, resp) ==
    /\ program \in {"live", "session"}
    /\ j \in DOMAIN invs[n].calls
    /\ invs[n].calls[j].pc = "inflight"
    /\ resp \in AnswersFor(token)
    /\ LET inv == invs[n]
           pair == inv.routePairs[j]
           key == getRouteKey(pair.from.id, pair.to.id)
           answer == FetchRouteAnswer(routeCache, pair.from.coordinates, pair.to.coordinates, resp)
           after == LiveComplete(liveGeoms, inv.fetched, key, answer.result)
       IN  /\ routeCache' = answer.cache
           /\ IF answer.again
                THEN UNCHANGED <<invs, liveGeoms>>
                ELSE /\ liveGeoms' = after.geoms
                     /\ invs' = [invs EXCEPT ![n] =
                           [inv EXCEPT !.fetched = after.fetched,
                                       !.calls[j] = [pc |-> "done", result |-> answer.result]]]
    /\ UNCHANGED <<uiVars, routesLoaded, evRoutes, invCount, envVars, notLive>>

\* `await Promise.all(promises)` of invocation n resumes: the inter-batch
\* delay, or the end of the loop and routesLoaded = true.
LiveBatchDone(n) ==
    /\ program \in {"live", "session"}
    /\ invs[n].pc = "batch"
    /\ BatchSettled(invs[n].calls, BatchOf(invs[n].i, Len(invs[n].routePairs), LiveBatchSize))
    /\ IF invs[n].i + LiveBatchSize < Len(invs[n].routePairs)
         THEN /\ invs' = [invs EXCEPT ![n].pc = "delay"]
              /\ UNCHANGED routesLoaded
         ELSE /\ invs' = [invs EXCEPT ![n].pc = "done"]
              /\ routesLoaded' = TRUE
    /\ UNCHANGED <<uiVars, evRoutes, liveGeoms, invCount, envVars, routeCache, notLive>>

\* The 150 ms delay of invocation n is over: the next batch.
LiveDelayElapsed(n) ==
    /\ program \in {"live", "session"}
    /\ invs[n].pc = "delay"
    /\ LET issued == LiveIssueBatch(invs[n], invs[n].i + LiveBatchSize, liveGeoms, routeCache)
       IN  /\ invs' = [invs EXCEPT ![n] = [issued.inv EXCEPT !.delays = invs[n].delays + 1]]
           /\ liveGeoms' = issued.geoms
           /\ netActivity' = (netActivity \/ issued.sent)
    /\ UNCHANGED <<uiVars, routesLoaded, evRoutes, invCount, program, token, network,
                   routeCache, notLive>>

\* The .then callback without setRoutesLoading(false).
LoadResolvedStillLoading(n) ==
    /\ program = "live"
    /\ invs[n].pc = "done"
    /\ invs' = [invs EXCEPT ![n].pc = "resolved"]
    /\ tripsRefreshes' = tripsRefreshes + 1
    /\ UNCHANGED <<mounted, activeLayer, routesLoading, pendingLoading, routesLoaded, evRoutes,
                   liveGeoms, invCount, envVars, routeCache, notLive>>

\* The .then callback of the effect: refreshTripData, setTripsData and
\* setRoutesLoading(false).
LoadResolved(n) ==
    /\ program = "live"
    /\ invs[n].pc = "done"
    /\ invs' = [invs EXCEPT ![n].pc = "resolved"]
    /\ tripsRefreshes' = tripsRefreshes + 1
    /\ pendingLoading' = FALSE
    /\ UNCHANGED <<mounted, activeLayer, routesLoading, routesLoaded, evRoutes, liveGeoms,
                   invCount, envVars, routeCache, notLive>>

LiveNext ==
    \/ Mount
    \/ \E layer \in LayerTypes : SelectLayer(layer)
    \/ Render
    \/ \E n \in 1..MaxInv : \E j \in DOMAIN invs[n].calls : \E resp \in Responses :
          LiveRespond(n, j, resp)
    \/ \E n \in 1..MaxInv : LiveBatchDone(n)
    \/ \E n \in 1..MaxInv : LiveDelayElapsed(n)
    \/ \E n \in 1..MaxInv : LoadResolved(n)

LiveInit ==
    /\ program = "live"
    /\ token \in BOOLEAN
    /\ network \in Networks
    /\ netActivity = FALSE
    /\ RetryIdle
    /\ OfflineIdle
    /\ ResolverIdle
    /\ LiveIdle
    /\ GenIdle

SpecLive == LiveInit /\ [][LiveNext]_vars

\* The routing service answers every request, timers fire, promise
\* reactions run and React renders the state updates queued.
LiveFairness ==
    /\ WF_vars(Render)
    /\ WF_vars(\E n \in 1..MaxInv : \E j \in DOMAIN invs[n].calls : \E resp \in Responses :
                  LiveRespond(n, j, resp))
    /\ WF_vars(\E n \in 1..MaxInv : LiveBatchDone(n))
    /\ WF_vars(\E n \in 1..MaxInv : LiveDelayElapsed(n))
    /\ WF_vars(\E n \in 1..MaxInv : LoadResolved(n))

SpecLiveFair == LiveInit /\ [][LiveNext]_vars /\ LiveFairness

(* ------------------- initializeRoutes called again --------------------- *)
\* The tables precomputedRoutes may hold for the pairs: every pair, every
\* pair but the first, or none.
PrecomputedTables(pairs) ==
    {[k \in {getRouteKey(pairs[j].from.id, pairs[j].to.id) : j \in J} |->
        LET j == CHOOSE j \in J : getRouteKey(pairs[j].from.id, pairs[j].to.id) = k
        IN  ServiceRoute(pairs[j].from.coordinates, pairs[j].to.coordinates)] :
     J \in {1..Len(pairs), 2..Len(pairs), {}}}

\* A session in which the importers of the module call initializeRoutes and
\* wait for each call before the next, in the version that asks the routing
\* service or in the version that reads the precomputed table.
SessionInit ==
    /\ program = "session"
    /\ token \in BOOLEAN
    /\ network \in Networks
    /\ netActivity = FALSE
    /\ RetryIdle
    /\ OfflineIdle
    /\ ResolverIdle
    /\ LiveIdle
    /\ PrngIdle /\ StationsIdle /\ ProbeIdle /\ KeysIdle /\ TripsIdle
    /\ ResampleIdle
    /\ AnimationIdle
    /\ TwinIdle
    /\ netVersion \in {"tripData", "part_006"}
    /\ netStations = <<>>
    /\ netPc = "idle"
    /\ netRule = 1
    /\ netIdx = 1
    /\ netRoutes = <<>>
    /\ netRuleOf = <<>>

\* No invocation of initializeRoutes is under way.
Awaited == \A n \in 1..MaxInv : invs[n].pc \in {"none", "done"}

\* initializeRoutes() of tripData.ts, up to its first await.
SessionCall ==
    /\ program = "session"
    /\ netVersion = "tripData"
    /\ Awaited
    /\ InitializeRoutesCall
    /\ UNCHANGED <<uiVars, program, token, network, routeCache, notLive>>

\* initializeRoutes() of the copy that loads the precomputed table.
SessionCallPrecomputed ==
    /\ program = "session"
    /\ netVersion = "part_006"
    /\ invCount < MaxInv
    /\ invCount' = invCount + 1
    /\ invs' = [invs EXCEPT ![invCount + 1] = [NoInvocation EXCEPT !.pc = "done"]]
    /\ IF AlreadyLoaded
         THEN UNCHANGED <<routesLoaded, evRoutes, liveGeoms>>
         ELSE /\ evRoutes' = network
              /\ liveGeoms' \in PrecomputedTables(CollectRoutePairs(network))
              /\ routesLoaded' = TRUE
    /\ UNCHANGED <<uiVars, envVars, routeCache, notLive>>

SessionNext ==
    \/ SessionCall
    \/ SessionCallPrecomputed
    \/ \E n \in 1..MaxInv : \E j \in DOMAIN invs[n].calls : \E resp \in Responses :
          LiveRespond(n, j, resp)
    \/ \E n \in 1..MaxInv : LiveBatchDone(n)
    \/ \E n \in 1..MaxInv : LiveDelayElapsed(n)

SpecSession == SessionInit /\ [][SessionNext]_vars

\* A call of initializeRoutes is made in this step.
Called == invCount' = invCount + 1

\* The pairs of the load that resolved to nothing.
FailedPairs(inv) == {j \in DOMAIN inv.calls : inv.calls[j] = [pc |-> "done", result |-> NoRoute]}

\* C29: routesLoaded never goes back to false, and a call of initializeRoutes
\* made while it is true changes neither evRoutes nor routeGeometries nor the
\* route cache, sends nothing to the routing service and leaves an invocation
\* that has returned with no pair to ask for, also when pairs of the load
\* failed; an invocation with no pair never asks for one later.
C29_LoadedForGood ==
    /\ [][routesLoaded => routesLoaded']_vars
    /\ [][(routesLoaded /\ Called) =>
            /\ UNCHANGED <<evRoutes, liveGeoms, routeCache, netActivity>>
            /\ invs'[invCount'] = [NoInvocation EXCEPT !.pc = "done"]
            /\ \A n \in 1..invCount : invs'[n] = invs[n]]_vars
    /\ [][\A n \in 1..MaxInv :
            (invs[n].pc = "done" /\ invs[n].calls = <<>>) => invs'[n] = invs[n]]_vars

\* A second call found routesLoaded true after a load in which a pair failed
\* and no pair resolved.
C29_Witness ==
    /\ program = "session"
    /\ routesLoaded
    /\ invCount = 2
    /\ invs[2] = [NoInvocation EXCEPT !.pc = "done"]
    /\ invs[1].pc = "done"
    /\ FailedPairs(invs[1]) # {}
    /\ liveGeoms = EmptyMap

\* A second call found routesLoaded true after the precomputed table, which
\* lacks a pair, was loaded.
C29_WitnessPrecomputed ==
    /\ program = "session"
    /\ netVersion = "part_006"
    /\ routesLoaded
    /\ invCount = 2
    /\ evRoutes # <<>>
    /\ \E j \in 1..Len(CollectRoutePairs(evRoutes)) :
          ~MapHas(liveGeoms, getRouteKey(CollectRoutePairs(evRoutes)[j].from.id,
                                         CollectRoutePairs(evRoutes)[j].to.id))

(* ------------------------ seededRandom on its own ---------------------- *)
\* Everything of the route resolution at rest.
RouteIdle ==
    /\ token = TRUE
    /\ network = <<>>
    /\ netActivity = FALSE
    /\ RetryIdle
    /\ OfflineIdle
    /\ ResolverIdle
    /\ LiveIdle

\* Seeds handed to seededRandom: those of the repository (42, 123) and a few
\* others.
PrngSeeds == {0, 1, 42, 123, 2024, 12345}

\* const random = seededRandom(seed)
PrngInit ==
    /\ program = "prng"
    /\ RouteIdle
    /\ TripsIdle
    /\ NetworkIdle
    /\ ResampleIdle
    /\ AnimationIdle
    /\ TwinIdle
    /\ prngStart \in PrngSeeds
    /\ prngSeed = prngStart
    /\ prngPrev = prngStart
    /\ prngOut = RandomValue(0)
    /\ prngCalls = 0
    /\ StationsIdle
    /\ ProbeIdle
    /\ KeysIdle

\* random()
PrngCall ==
    /\ program = "prng"
    /\ prngCalls < MaxDraws
    /\ prngPrev' = prngSeed
    /\ prngSeed' = NextSeed(prngSeed)
    /\ prngOut' = RandomValue(NextSeed(prngSeed))
    /\ prngCalls' = prngCalls + 1
    /\ UNCHANGED <<prngStart, notPrng>>

PrngNext == PrngCall

SpecPrng == PrngInit /\ [][PrngNext]_vars

(* ----------------------- generateChargingStations ---------------------- *)
\* chargingStations.ts creates `random` once, when the module is loaded;
\* generateRoutes.ts creates it at the start of every call.
StationsInit ==
    /\ program = "stations"
    /\ RouteIdle
    /\ TripsIdle
    /\ NetworkIdle
    /\ ResampleIdle
    /\ AnimationIdle
    /\ TwinIdle
    /\ PrngIdle
    /\ ProbeIdle
    /\ genVersion \in {"module", "script"}
    /\ genRandom = StationSeed
    /\ genPc = "idle"
    /\ genStations = <<>>
    /\ genStationId = 0
    /\ genCity = 1
    /\ genI = 0
    /\ genHw = 0
    /\ genResults = <<>>
    /\ KeysIdle

\* generateChargingStations() is called: its first lines.
GenCall ==
    /\ program = "stations"
    /\ genPc = "idle"
    /\ Len(genResults) < MaxGenCalls
    /\ genRandom' = IF genVersion = "script" THEN StationSeed ELSE genRandom
    /\ genStations' = <<>>
    /\ genStationId' = 0
    /\ genCity' = 1
    /\ genI' = 0
    /\ genHw' = 0
    /\ genPc' = "city"
    /\ UNCHANGED <<genVersion, genResults, notStations>>

\* One iteration of the loop of generateStationsAroundCity; after the last
\* one of a city, stationId += city.density and the next city.
GenCityStation ==
    /\ program = "stations"
    /\ genPc = "city"
    /\ LET city == cityHubs[genCity]
           d == Stream(genRandom, MaxStationDraws)
           built == CityStation(city.name, city.coords, genI, genStationId, d)
           last == genI + 1 = city.density
       IN  /\ genStations' = Append(genStations, built.station)
           /\ genRandom' = d[built.used]
           /\ genI' = IF last THEN 0 ELSE genI + 1
           /\ genStationId' = IF last THEN NextStationId(genStationId, city.density)
                              ELSE genStationId
           /\ genCity' = IF last THEN genCity + 1 ELSE genCity
           /\ genPc' = IF last /\ genCity = Len(cityHubs) THEN "highway" ELSE "city"
    /\ UNCHANGED <<genVersion, genHw, genResults, notStations>>

\* One iteration of highwayStations.forEach.
GenHighwayStation ==
    /\ program = "stations"
    /\ genPc = "highway"
    /\ LET highway == highwayStations[genHw + 1]
           d == Stream(genRandom, MaxStationDraws)
           built == HighwayStation(highway.name, highway.coords, genHw, d)
       IN  /\ genStations' = Append(genStations, built.station)
           /\ genRandom' = d[built.used]
    /\ genHw' = genHw + 1
    /\ genPc' = IF genHw + 1 = Len(highwayStations) THEN "return" ELSE "highway"
    /\ UNCHANGED <<genVersion, genStationId, genCity, genI, genResults, notStations>>

\* return stations
GenReturn ==
    /\ program = "stations"
    /\ genPc = "return"
    /\ genResults' = Append(genResults, genStations)
    /\ genPc' = "idle"
    /\ UNCHANGED <<genVersion, genRandom, genStations, genStationId, genCity, genI, genHw,
                   notStations>>

StationsNext ==
    \/ GenCall
    \/ GenCityStation
    \/ GenHighwayStation
    \/ GenReturn

SpecStations == StationsInit /\ [][StationsNext]_vars

(* ------------------ one station from an injected random ---------------- *)
\* States a generator can be in when it returns, between the least and the
\* greatest; 858993458 / 0x7fffffff lies between 0.2 and 0.4.
SampleStates == {0, 858993458, 1073741824, 2147483646}

ProbeInit ==
    /\ program = "probe"
    /\ RouteIdle
    /\ TripsIdle
    /\ NetworkIdle
    /\ ResampleIdle
    /\ AnimationIdle
    /\ TwinIdle
    /\ PrngIdle
    /\ StationsIdle
    /\ probeTape \in [1..MaxStationDraws -> SampleStates]
    /\ probe = <<>>
    /\ KeysIdle

\* generateStationsAroundCity(name, coords, 1, 0, random)
ProbeCity ==
    /\ program = "probe"
    /\ probe = <<>>
    /\ probe' = <<"city", CityStation(cityHubs[1].name, cityHubs[1].coords, 0, 0, probeTape).station>>
    /\ UNCHANGED <<probeTape, notProbe>>

\* generateHighwayStation(name, coords, 0, random)
ProbeHighway ==
    /\ program = "probe"
    /\ probe = <<>>
    /\ probe' = <<"highway",
                  HighwayStation(highwayStations[1].name, highwayStations[1].coords, 0, probeTape).station>>
    /\ UNCHANGED <<probeTape, notProbe>>

ProbeNext == ProbeCity \/ ProbeHighway

SpecStationDraws == ProbeInit /\ [][ProbeNext]_vars

(* ------------------------------ getRouteKey ---------------------------- *)
\* The ids generateChargingStations hands out, up to a number.
KeyIds == {StationId(n) : n \in 0..MaxKeyNumber} \cup {HighwayId(n) : n \in 0..MaxKeyNumber}

KeysInit ==
    /\ program = "keys"
    /\ RouteIdle
    /\ TripsIdle
    /\ NetworkIdle
    /\ ResampleIdle
    /\ AnimationIdle
    /\ TwinIdle
    /\ PrngIdle
    /\ StationsIdle
    /\ ProbeIdle
    /\ keyIds \in [1..4 -> KeyIds]
    /\ routeKeys = <<>>

\* getRouteKey(a, b), getRouteKey(b, a) and getRouteKey(c, d)
KeysCall ==
    /\ program = "keys"
    /\ routeKeys = <<>>
    /\ routeKeys' = <<getRouteKey(keyIds[1], keyIds[2]), getRouteKey(keyIds[2], keyIds[1]),
                 getRouteKey(keyIds[3], keyIds[4])>>
    /\ UNCHANGED <<keyIds, notKeys>>

KeysNext == KeysCall

SpecKeys == KeysInit /\ [][KeysNext]_vars

(* ------------------------- generateTripData ---------------------------- *)
\* Three stations as the trip expander sees them: id and name.
DepotA == [id |-> StationId(0),
           name |-> <<"A", "m", "s", "t", "e", "r", "d", "a", "m", " ", "N", "o", "o", "r", "d",
                      " ", "1">>]

DepotB == [id |-> StationId(25),
           name |-> <<"R", "o", "t", "t", "e", "r", "d", "a", "m", " ", "Z", "u", "i", "d", " ",
                      "1">>]

\* The demand edges the expander is run on: of the two largest weights,
\* vans and commuters one way and road trips the other way.
TripEdges ==
    {[from |-> DepotA, to |-> DepotB, tripType |-> t, weight |-> w] :
        t \in {"delivery", "commuter"}, w \in (MaxWeight - 1)..MaxWeight}
    \cup {[from |-> DepotB, to |-> DepotA, tripType |-> "roadtrip", weight |-> w] :
            w \in (MaxWeight - 1)..MaxWeight}

Line(n) == [w \in 1..n |-> <<4890000 + 10000 * w, 52370000>>]

\* The geometry the routing service has for each pair: duration in seconds,
\* distance in metres and the waypoints; the way back is a single point.
TripGeometry ==
    (getRouteKey(DepotA.id, DepotB.id) :>
        [coordinates |-> Line(4), distance |-> 60000, duration |-> 2700])
    @@ (getRouteKey(DepotB.id, DepotA.id) :>
        [coordinates |-> Line(1), distance |-> 15000, duration |-> 900])

\* The route tables: the pairs that resolved, each with its geometry.
TripTables == {[k \in K |-> TripGeometry[k]] : K \in SUBSET (DOMAIN TripGeometry)}

TripsInit ==
    /\ program = "trips"
    /\ RouteIdle
    /\ PrngIdle
    /\ StationsIdle
    /\ ProbeIdle
    /\ KeysIdle
    /\ NetworkIdle
    /\ ResampleIdle
    /\ AnimationIdle
    /\ TwinIdle
    /\ tripRoutes \in SeqsUpTo(TripEdges, MaxTripEdges)
    /\ tripGeoms \in TripTables
    /\ tripPc = "idle"
    /\ tripRandom = TripSeed
    /\ trips = <<>>
    /\ tripOrigin = <<>>
    /\ tripId = 0
    /\ tripEdge = 1
    /\ tripI = 0

\* generateTripData(): the locals before evRoutes.forEach
GenerateTripDataCall ==
    /\ program = "trips"
    /\ tripPc = "idle"
    /\ tripPc' = "loop"
    /\ tripRandom' = TripSeed
    /\ trips' = <<>>
    /\ tripOrigin' = <<>>
    /\ tripId' = 0
    /\ tripEdge' = 1
    /\ tripI' = 0
    /\ UNCHANGED <<tripRoutes, tripGeoms, notTrips>>

\* trips.push of what one pass produced, and the generator state it leaves.
TripsPushed(body) ==
    /\ trips' = trips \o [k \in 1..Len(body.pushed) |-> body.pushed[k].trip]
    /\ tripOrigin' = tripOrigin \o
         [k \in 1..Len(body.pushed) |->
             [edge |-> tripEdge, direction |-> body.pushed[k].direction,
              startTime |-> body.pushed[k].startTime,
              endTime |-> body.pushed[k].endTime]]
    /\ tripId' = tripId + Len(body.pushed)
    /\ tripRandom' = body.seed

\* One pass of the loop `for (let i = 0; i < numTrips; i++)`.
TripLoopPass ==
    /\ program = "trips"
    /\ tripPc = "loop"
    /\ tripEdge <= Len(tripRoutes)
    /\ tripI < NumTrips(tripRoutes[tripEdge])
    /\ TripsPushed(TripLoopBody(tripRoutes[tripEdge], tripI, tripGeoms, tripId, tripRandom))
    /\ tripI' = tripI + 1
    /\ UNCHANGED <<tripRoutes, tripGeoms, tripPc, tripEdge, notTrips>>

\* The loop of an edge ends and forEach moves on.
TripNextEdge ==
    /\ program = "trips"
    /\ tripPc = "loop"
    /\ tripEdge <= Len(tripRoutes)
    /\ tripI >= NumTrips(tripRoutes[tripEdge])
    /\ tripEdge' = tripEdge + 1
    /\ tripI' = 0
    /\ UNCHANGED <<tripRoutes, tripGeoms, tripPc, tripRandom, trips, tripOrigin, tripId,
                   notTrips>>

\* return trips
GenerateTripDataReturn ==
    /\ program = "trips"
    /\ tripPc = "loop"
    /\ tripEdge > Len(tripRoutes)
    /\ tripPc' = "done"
    /\ UNCHANGED <<tripRoutes, tripGeoms, tripRandom, trips, tripOrigin, tripId, tripEdge,
                   tripI, notTrips>>

TripsNext == GenerateTripDataCall \/ TripLoopPass \/ TripNextEdge \/ GenerateTripDataReturn

SpecTrips == TripsInit /\ [][TripsNext]_vars

\* The trips pushed for the edge e in the direction d.
TripsOf(e, d) ==
    {k \in 1..Len(tripOrigin) : tripOrigin[k].edge = e /\ tripOrigin[k].direction = d}

\* The passes of the loop run so far for the edge e.
PassesRun(e) ==
    IF e < tripEdge THEN tripRoutes[e].weight ELSE IF e = tripEdge THEN tripI ELSE 0

HasForward(e) == MapHas(tripGeoms, getRouteKey(tripRoutes[e].from.id, tripRoutes[e].to.id))

HasReverse(e) == MapHas(tripGeoms, getRouteKey(tripRoutes[e].to.id, tripRoutes[e].from.id))

\* C12: for every demand edge generateTripData pushes one forward trip per
\* pass, `weight` of them in all, when the forward key of the edge is in the
\* route table and none when it is absent; it pushes a return trip only
\* when the reverse key is in the table; with an empty table it pushes no
\* trip at all and still runs to its return.
C12_TripCounts ==
    /\ Len(trips) = Len(tripOrigin)
    /\ \A e \in 1..Len(tripRoutes) :
          /\ Cardinality(TripsOf(e, "forward")) = (IF HasForward(e) THEN PassesRun(e) ELSE 0)
          /\ TripsOf(e, "return") # {} => HasReverse(e)
          /\ Cardinality(TripsOf(e, "return")) <= PassesRun(e)
    /\ tripPc = "done" =>
          \A e \in 1..Len(tripRoutes) : PassesRun(e) = tripRoutes[e].weight
    /\ DOMAIN tripGeoms = {} => trips = <<>>

\* generateTripData returned; its first edge had its forward key only and
\* expanded into `weight` = 3 forward trips, its second edge had its reverse
\* key only and expanded into return trips alone.
C12_Witness ==
    /\ tripPc = "done"
    /\ Len(tripRoutes) = 2
    /\ HasForward(1) /\ ~HasReverse(1)
    /\ tripRoutes[1].weight = 3
    /\ Cardinality(TripsOf(1, "forward")) = 3
    /\ ~HasForward(2) /\ HasReverse(2)
    /\ TripsOf(2, "forward") = {}
    /\ TripsOf(2, "return") # {}

\* generateTripData returned from an empty route table without a trip.
C12_WitnessEmpty ==
    /\ tripPc = "done"
    /\ tripRoutes # <<>>
    /\ DOMAIN tripGeoms = {}
    /\ trips = <<>>

Timestamps(trip) == {trip.waypoints[w].timestamp : w \in DOMAIN trip.waypoints}

\* C13 as stated: every waypoint timestamp of every trip of generateTripData
\* lies in [0, LOOP_DURATION).
C13_Original ==
    \A k \in 1..Len(trips) :
        \A t \in Timestamps(trips[k]) : DCmp(t, DFromInt(LOOP_DURATION)) < 0

\* What does hold: the start time of every trip lies in [0, LOOP_DURATION).
C13_StartTimeWrapped ==
    \A k \in 1..Len(tripOrigin) :
        DCmp(tripOrigin[k].startTime, DFromInt(LOOP_DURATION)) < 0

\* |a - b|
DDist(a, b) == IF DCmp(a, b) >= 0 THEN DSub(a, b) ELSE DSub(b, a)

\* The largest relative error the interpolation is allowed: 2^-40.
Tolerance == [m |-> BigShl(BigFromInt(1), MantissaBits - 1), e |-> 0 - (MantissaBits - 1) - 40]

NonDecreasing(waypoints) ==
    \A w \in 1..(Len(waypoints) - 1) :
        DCmp(waypoints[w].timestamp, waypoints[w + 1].timestamp) <= 0

FirstTimestamp(k) == trips[k].waypoints[1].timestamp

LastTimestamp(k) == trips[k].waypoints[Len(trips[k].waypoints)].timestamp

\* startTime + scaledDuration, or startTime for a single waypoint
EndTime(k) ==
    IF Len(trips[k].waypoints) = 1 THEN tripOrigin[k].startTime
    ELSE tripOrigin[k].endTime

\* a and b are equal, or differ by at most Tolerance times b.
CloseTo(a, b) == a = b \/ DCmp(DDist(a, b), DMul(b, Tolerance)) <= 0

\* C14 as stated: the waypoint timestamps of every trip are non-decreasing,
\* the first equals startTime and the last equals startTime + scaledDuration
\* (startTime for a single waypoint).
C14_Original ==
    \A k \in 1..Len(trips) :
        /\ NonDecreasing(trips[k].waypoints)
        /\ FirstTimestamp(k) = tripOrigin[k].startTime
        /\ LastTimestamp(k) = EndTime(k)

\* C14 amended: the waypoint timestamps of every trip are non-decreasing,
\* the first equals startTime, and the last is startTime for a single
\* waypoint and otherwise within a relative error of 2^-40 of
\* startTime + scaledDuration, which it need not equal.
C14_WithinRounding ==
    \A k \in 1..Len(trips) :
        /\ NonDecreasing(trips[k].waypoints)
        /\ FirstTimestamp(k) = tripOrigin[k].startTime
        /\ Len(trips[k].waypoints) = 1 => LastTimestamp(k) = tripOrigin[k].startTime
        /\ CloseTo(LastTimestamp(k), EndTime(k))

\* A trip of four waypoints whose last timestamp is not startTime +
\* scaledDuration, and a trip of a single waypoint.
C14_Witness ==
    /\ \E k \in 1..Len(trips) :
          /\ Len(trips[k].waypoints) = 4
          /\ LastTimestamp(k) # EndTime(k)
    /\ \E k \in 1..Len(trips) : Len(trips[k].waypoints) = 1


(* ----------------------- generateEVRouteNetwork ------------------------ *)
\* s.name.includes(word): a station name is `${city} ${suffix} ${number}`,
\* kept as its three parts, and no part of a name contains a city name
\* without being it.
NameIncludes(name, word) == \E i \in DOMAIN name : name[i] = word

\* The stations the generator is run on are taken from these, the city
\* stations first as generateChargingStations returns them.  All lie on one
\* meridian; the latitude is in thousandths of a degree, which is 9 to the
\* kilometre nearly: the Amsterdam stations at 0 and 5 km, the Rotterdam
\* stations at 60 and 90 km, the highway plazas at 10, 50 and 85 km.
NetPool ==
    << [id |-> StationId(0), name |-> <<"Amsterdam", "Centrum", "1">>, type |-> "superfast",
        coordinates |-> <<4900, 52000>>],
       [id |-> StationId(1), name |-> <<"Amsterdam", "Noord", "2">>, type |-> "standard",
        coordinates |-> <<4900, 52045>>],
       [id |-> StationId(2), name |-> <<"Rotterdam", "Zuid", "1">>, type |-> "fast",
        coordinates |-> <<4900, 52540>>],
       [id |-> StationId(3), name |-> <<"Rotterdam", "Park", "2">>, type |-> "superfast",
        coordinates |-> <<4900, 52810>>],
       [id |-> HighwayId(0), name |-> <<"A2 Breukelen", "Charging Plaza">>, type |-> "fast",
        coordinates |-> <<4900, 52090>>],
       [id |-> HighwayId(1), name |-> <<"A2 Vianen", "Charging Plaza">>, type |-> "superfast",
        coordinates |-> <<4900, 52450>>],
       [id |-> HighwayId(2), name |-> <<"A2 Den Bosch", "Charging Plaza">>, type |-> "fast",
        coordinates |-> <<4900, 52765>>] >>

RangeOf(list) == {list[i] : i \in DOMAIN list}

\* The members of list that are in K, in the order of list.
Kept(list, K) == SelectSeq(list, LAMBDA s : s \in K)

\* R * Math.PI / 180 with R = 6371 km: the metres to a degree of latitude
MetresPerDegree == 111195

Abs(x) == IF x < 0 THEN 0 - x ELSE x

\* getDistance for two points of one meridian, where dLon = 0 and the
\* haversine formula gives R * |dLat|; in metres
getDistance(coord1, coord2) == (Abs(coord2[2] - coord1[2]) * MetresPerDegree) \div 1000

\* .sort(() => random() - 0.5): the comparator is inconsistent, so the order
\* is the engine's choice; every order of the list is possible.
Shuffles(list) ==
    {p \in [1..Len(list) -> RangeOf(list)] :
        \A i, j \in 1..Len(list) : i # j => p[i] # p[j]}

\* list.slice(0, n)
Slice(list, n) == SubSeq(list, 1, MinOf(n, Len(list)))

\* findNearbyStations: every list it can return
findNearbyStations(station, stations, minKm, maxKm) ==
    Shuffles(SelectSeq(stations,
               LAMBDA s : /\ s.id # station.id
                          /\ getDistance(station.coordinates, s.coordinates) >= minKm * 1000
                          /\ getDistance(station.coordinates, s.coordinates) <= maxKm * 1000))

\* Every station of the list, the given one included.
OthersAndSelf(list, station) == list

\* list.filter((s) => s.id !== station.id)
Others(list, station) == SelectSeq(list, LAMBDA s : s.id # station.id)

\* The least and the greatest value of Math.floor(random() * n): those of
\* the least and the greatest state a generator returns in.
FloorDraws(n) == {FloorRand(0, n), FloorRand(RandMax - 1, n)}

\* The weights drawn as base + Math.floor(random() * (n + 1)).
PushesOneTooMany(from, targets, tripType, base, n) ==
    {[i \in 1..Len(targets) |->
         [from |-> from, to |-> targets[i], tripType |-> tripType, weight |-> base + w[i]]] :
       w \in [1..Len(targets) -> FloorDraws(n + 1)]}

\* routes.push for each target in turn with weight: base + Math.floor(random() * n):
\* every list of edges this can push
Pushes(from, targets, tripType, base, n) ==
    {[i \in 1..Len(targets) |->
         [from |-> from, to |-> targets[i], tripType |-> tripType, weight |-> base + w[i]]] :
       w \in [1..Len(targets) -> FloorDraws(n)]}

NetHighway == SelectSeq(netStations, IsHighway)

NetCity == SelectSeq(netStations, LAMBDA s : ~IsHighway(s))

NetAmsterdam == SelectSeq(NetCity, LAMBDA s : NameIncludes(s.name, "Amsterdam"))

NetRotterdam == SelectSeq(NetCity, LAMBDA s : NameIncludes(s.name, "Rotterdam"))

IsDeliveryHub(s) == s.type = "superfast" \/ s.type = "fast"

\* The list the forEach of each rule runs over.
RuleStations(rule) ==
    CASE rule = 1 -> NetHighway
      [] rule = 2 -> NetCity
      [] rule = 3 -> NetCity
      [] rule = 4 -> SelectSeq(NetCity, LAMBDA s : s.type = "superfast")
      [] rule = 5 -> Slice(NetAmsterdam, 8)
      [] rule = 6 -> NetAmsterdam
      [] rule = 7 -> NetRotterdam
      [] rule = 8 -> SelectSeq(NetAmsterdam, IsDeliveryHub) \o SelectSeq(NetRotterdam, IsDeliveryHub)

\* The rules of src/data/tripData.ts end with the delivery routes.
LastRule(version) == IF version = "tripData" THEN 4 ELSE 8

\* 1. Highway corridor trips
CorridorPushes(station) ==
    UNION {Pushes(station, SelectSeq(Slice(nearby, 3), IsHighway), "roadtrip", 3, 4) :
             nearby \in findNearbyStations(station, netStations, 20, 80)}

\* 2. City to highway trips: nothing when random() > 0.3 or no highway
\* station is within 40 km
CityHighwayPushes(station) ==
    {<<>>} \cup
    {<<[from |-> station, to |-> l[1], tripType |-> "roadtrip", weight |-> 2]>> :
        l \in Shuffles(SelectSeq(NetHighway,
                         LAMBDA h : getDistance(station.coordinates, h.coordinates) < 40 * 1000))
              \ {<<>>}}

\* 3. Local commuter trips
CommuterPushes(station) ==
    UNION {Pushes(station, Slice(SelectSeq(nearbyCity, LAMBDA s : ~IsHighway(s)), 2),
                  "commuter", 4, 4) :
             nearbyCity \in findNearbyStations(station, netStations, 3, 25)}

\* 4. Delivery routes
DeliveryPushes(hub) ==
    UNION {Pushes(hub, Slice(nearbyStations, 4), "delivery", 5, 5) :
             nearbyStations \in findNearbyStations(hub, netStations, 2, 15)}

\* 5. Amsterdam-Rotterdam corridor: each Rotterdam station is skipped when
\* random() > 0.6
InterCityPushes(amsStation) ==
    UNION {Pushes(amsStation, Kept(Slice(NetRotterdam, 6), K), "roadtrip", 3, 3) :
             K \in SUBSET RangeOf(Slice(NetRotterdam, 6))}

\* Extra internal commuter routes of the city whose stations are `list`
InternalPushes(list, station) ==
    UNION {Pushes(station, Slice(nearby, 3), "commuter", 5, 5) :
             nearby \in Shuffles(Others(list, station))}

AmsterdamPushes(station) == InternalPushes(NetAmsterdam, station)

RotterdamPushes(station) == InternalPushes(NetRotterdam, station)

\* Amsterdam & Rotterdam delivery hub boost
BoostPushes(hub) ==
    UNION {Pushes(hub, Slice(nearbyStations, 6), "delivery", 6, 6) :
             nearbyStations \in findNearbyStations(hub, netStations, 1, 20)}

\* Two Amsterdam stations, a Rotterdam station and two highway plazas: the
\* three city stations and the first plaza are 40 to 50 km from the second.
CrowdedList == Kept(NetPool, {NetPool[1], NetPool[2], NetPool[4], NetPool[5], NetPool[6]})

\* The lists of stations the generator is run on: every list of up to
\* MaxStations stations of the pool, and the crowded one.
StationLists ==
    {Kept(NetPool, K) : K \in {S \in SUBSET RangeOf(NetPool) : Cardinality(S) <= MaxStations}}
      \cup {CrowdedList}

NetworkInit ==
    /\ program = "network"
    /\ RouteIdle
    /\ ResampleIdle
    /\ AnimationIdle
    /\ TwinIdle
    /\ PrngIdle
    /\ StationsIdle
    /\ ProbeIdle
    /\ KeysIdle
    /\ TripsIdle
    /\ netVersion \in {"tripData", "part_006"}
    /\ netStations \in StationLists
    /\ netPc = "idle"
    /\ netRule = 1
    /\ netIdx = 1
    /\ netRoutes = <<>>
    /\ netRuleOf = <<>>

\* generateEVRouteNetwork(random): const routes = []
NetworkCall ==
    /\ program = "network"
    /\ netPc = "idle"
    /\ netPc' = "running"
    /\ netRule' = 1
    /\ netIdx' = 1
    /\ netRoutes' = <<>>
    /\ netRuleOf' = <<>>
    /\ UNCHANGED <<netVersion, netStations, notNetwork>>

\* The station the forEach of the rule is at.
Current(rule) == RuleStations(rule)[netIdx]

\* One pass of the forEach of a rule: the station at netIdx pushes one of
\* the lists of edges in `pushes`.
RulePass(rule, pushes) ==
    /\ program = "network"
    /\ netPc = "running"
    /\ netRule = rule
    /\ netIdx <= Len(RuleStations(rule))
    /\ \E pushed \in pushes :
          /\ netRoutes' = netRoutes \o pushed
          /\ netRuleOf' = netRuleOf \o [i \in 1..Len(pushed) |-> rule]
    /\ netIdx' = netIdx + 1
    /\ UNCHANGED <<netVersion, netStations, netPc, netRule, notNetwork>>

HighwayCorridor == RulePass(1, CorridorPushes(Current(1)))

CityToHighway == RulePass(2, CityHighwayPushes(Current(2)))

LocalCommuter == RulePass(3, CommuterPushes(Current(3)))

DeliveryRoutes == RulePass(4, DeliveryPushes(Current(4)))

InterCityCorridor == RulePass(5, InterCityPushes(Current(5)))

AmsterdamInternal == RulePass(6, AmsterdamPushes(Current(6)))

RotterdamInternal == RulePass(7, RotterdamPushes(Current(7)))

DeliveryHubBoost == RulePass(8, BoostPushes(Current(8)))

\* The forEach of a rule ends and the next rule begins.
NetworkNextRule ==
    /\ program = "network"
    /\ netPc = "running"
    /\ netIdx > Len(RuleStations(netRule))
    /\ netRule < LastRule(netVersion)
    /\ netRule' = netRule + 1
    /\ netIdx' = 1
    /\ UNCHANGED <<netVersion, netStations, netPc, netRoutes, netRuleOf, notNetwork>>

\* return routes
NetworkReturn ==
    /\ program = "network"
    /\ netPc = "running"
    /\ netIdx > Len(RuleStations(netRule))
    /\ netRule = LastRule(netVersion)
    /\ netPc' = "done"
    /\ UNCHANGED <<netVersion, netStations, netRule, netIdx, netRoutes, netRuleOf, notNetwork>>

NetworkNext ==
    \/ NetworkCall
    \/ HighwayCorridor
    \/ CityToHighway
    \/ LocalCommuter
    \/ DeliveryRoutes
    \/ InterCityCorridor
    \/ AmsterdamInternal
    \/ RotterdamInternal
    \/ DeliveryHubBoost
    \/ NetworkNextRule
    \/ NetworkReturn

SpecNetwork == NetworkInit /\ [][NetworkNext]_vars

\* C19: every edge generateEVRouteNetwork has pushed, by any rule of either
\* version, joins two stations of the list the generator runs on, and its
\* ends have different ids.
C19_EdgesJoinDistinctStations ==
    \A k \in 1..Len(netRoutes) :
        /\ netRoutes[k].from \in RangeOf(netStations)
        /\ netRoutes[k].to \in RangeOf(netStations)
        /\ netRoutes[k].from.id # netRoutes[k].to.id

\* The longer generator returned, run on two Amsterdam stations and a
\* Rotterdam station, with commuter, delivery, inter-city, internal and
\* hub-boost edges.
C19_Witness ==
    /\ netPc = "done"
    /\ netVersion = "part_006"
    /\ \A rule \in {3, 4, 5, 6, 8} : \E k \in 1..Len(netRuleOf) : netRuleOf[k] = rule

\* The generator of src/data/tripData.ts returned with highway corridor
\* and city-to-highway edges.
C19_WitnessHighway ==
    /\ netPc = "done"
    /\ netVersion = "tripData"
    /\ \A rule \in 1..2 : \E k \in 1..Len(netRuleOf) : netRuleOf[k] = rule

\* The edges the highway corridor rule pushed from station h.
CorridorEdges(h) ==
    {k \in 1..Len(netRoutes) : netRuleOf[k] = 1 /\ netRoutes[k].from = h}

\* The other highway stations 20 to 80 km from h.
CorridorCandidates(h) ==
    {s \in RangeOf(NetHighway) :
        /\ s.id # h.id
        /\ getDistance(h.coordinates, s.coordinates) >= 20 * 1000
        /\ getDistance(h.coordinates, s.coordinates) <= 80 * 1000}

\* The forEach of `rule` has passed the i-th station of its list.
Passed(rule, i) ==
    /\ netPc # "idle"
    /\ netRule > rule \/ (netRule = rule /\ netIdx > i)

\* C21 as stated: for each highway station h the highway corridor rule
\* creates exactly min(3, k) roadtrip edges from h, k being the number of
\* other highway stations 20 to 80 km from h, each edge going to a distinct
\* one of those stations.
C21_Original ==
    \A i \in 1..Len(NetHighway) :
        Passed(1, i) =>
            /\ Cardinality(CorridorEdges(NetHighway[i]))
                  = MinOf(3, Cardinality(CorridorCandidates(NetHighway[i])))
            /\ \A k \in CorridorEdges(NetHighway[i]) :
                  /\ netRoutes[k].tripType = "roadtrip"
                  /\ netRoutes[k].to \in CorridorCandidates(NetHighway[i])
            /\ \A k, l \in CorridorEdges(NetHighway[i]) :
                  k # l => netRoutes[k].to # netRoutes[l].to

\* What does hold: the rule creates at most min(3, k) roadtrip edges from h,
\* each going to a distinct highway station 20 to 80 km from h.
C21_AtMost ==
    \A i \in 1..Len(NetHighway) :
        Passed(1, i) =>
            /\ Cardinality(CorridorEdges(NetHighway[i]))
                  <= MinOf(3, Cardinality(CorridorCandidates(NetHighway[i])))
            /\ \A k \in CorridorEdges(NetHighway[i]) :
                  /\ netRoutes[k].tripType = "roadtrip"
                  /\ netRoutes[k].to \in CorridorCandidates(NetHighway[i])
            /\ \A k, l \in CorridorEdges(NetHighway[i]) :
                  k # l => netRoutes[k].to # netRoutes[l].to

\* C22 as stated: every edge the city-to-highway rule creates goes to the
\* highway station nearest to its city station, and has weight 2.
C22_Original ==
    \A k \in 1..Len(netRoutes) :
        netRuleOf[k] = 2 =>
            /\ netRoutes[k].weight = 2
            /\ IsHighway(netRoutes[k].to)
            /\ \A h \in RangeOf(NetHighway) :
                  getDistance(netRoutes[k].from.coordinates, netRoutes[k].to.coordinates)
                    <= getDistance(netRoutes[k].from.coordinates, h.coordinates)

\* What does hold: every edge the city-to-highway rule creates is a roadtrip
\* edge of weight 2 from a city station to some highway station less than
\* 40 km away, and no station gets two of them.
C22_SomeWithin40 ==
    /\ \A k \in 1..Len(netRoutes) :
          netRuleOf[k] = 2 =>
              /\ netRoutes[k].weight = 2
              /\ netRoutes[k].tripType = "roadtrip"
              /\ ~IsHighway(netRoutes[k].from)
              /\ IsHighway(netRoutes[k].to)
              /\ getDistance(netRoutes[k].from.coordinates, netRoutes[k].to.coordinates)
                    < 40 * 1000
    /\ \A k, l \in 1..Len(netRoutes) :
          (netRuleOf[k] = 2 /\ netRuleOf[l] = 2 /\ k # l)
              => netRoutes[k].from # netRoutes[l].from

\* The weights each of the first four rules may give.
RuleWeights(rule) ==
    CASE rule = 1 -> 3..6
      [] rule = 2 -> {2}
      [] rule = 3 -> 4..7
      [] rule = 4 -> 5..9

\* C23: every weight generateEVRouteNetwork gives is a positive integer in
\* the set of its rule, {3,4,5,6} for highway corridor edges, 2 for
\* city-to-highway edges, {4,5,6,7} for local commuter edges and
\* {5,6,7,8,9} for delivery edges, for the least and the greatest value the
\* generator can return.
C23_WeightsInRange ==
    \A k \in 1..Len(netRoutes) :
        /\ netRoutes[k].weight \in Nat \ {0}
        /\ netRuleOf[k] \in 1..4 => netRoutes[k].weight \in RuleWeights(netRuleOf[k])

\* The generator returned with the least and the greatest weight of the
\* corridor, commuter and delivery rules, and a city-to-highway edge.
C23_Witness ==
    /\ netPc = "done"
    /\ \E k \in 1..Len(netRoutes) : netRuleOf[k] = 2 /\ netRoutes[k].weight = 2
    /\ \A rule \in {1, 3, 4} :
          \A w \in RuleWeights(rule) :
              ((\A v \in RuleWeights(rule) : w <= v) \/ (\A v \in RuleWeights(rule) : w >= v))
                  => \E k \in 1..Len(netRoutes) : netRuleOf[k] = rule /\ netRoutes[k].weight = w


(* ------------- generateStationsAroundCity with coastal boundaries ------- *)
\* coastalBoundaries, by city name
coastalBoundaries == [name \in {"The Hague"} |-> [minLng |-> [num |-> 430, den |-> 100]]]

\* const maxAttempts = 10
maxAttempts == 10

\* Math.cos(random() * Math.PI * 2) when random() leaves the generator in
\* `state`, to nine decimals: the angles are 0, a sixth of a turn and half a
\* turn.
CosTurn ==
    {[state |-> 0, negative |-> FALSE, size |-> [num |-> 1, den |-> 1]],
     [state |-> 357913941, negative |-> FALSE, size |-> [num |-> 1, den |-> 2]],
     [state |-> 1073741824, negative |-> TRUE, size |-> [num |-> 1, den |-> 1]]}

\* The states the generator is left in by the call that draws the distance.
DistanceStates == {0, RandMax - 1}

\* center[0] of a city, as the literal of the hub table denotes it
CenterLng(city) == DDiv(DFromInt(cityHubs[city].coords[1]), DFromInt(1000000))

\* const distance = 0.02 + random() * 0.06
SampledDistance(state) ==
    DAdd(Decimal([num |-> 2, den |-> 100]), DMul(DRandom(state), Decimal([num |-> 6, den |-> 100])))

\* lng = center[0] + Math.cos(angle) * distance
SampledLng(center, cos, distance) ==
    IF cos.negative
    THEN DSub(center, DMul(Decimal(cos.size), distance))
    ELSE DAdd(center, DMul(Decimal(cos.size), distance))

\* The cities the generator is called for: Amsterdam, which has no coastal
\* boundary, and The Hague, which has one.
ResampleCities == {1, 3}

\* Every longitude one pass of the do-while body can give, by city.
LngSamples ==
    [city \in ResampleCities |->
        {SampledLng(CenterLng(city), cos, SampledDistance(state)) :
            cos \in CosTurn, state \in DistanceStates}]

\* boundary.minLng as the literal denotes it, by city name
MinLng == [name \in DOMAIN coastalBoundaries |-> Decimal(coastalBoundaries[name].minLng)]

\* lng = boundary.minLng + random() * 0.01, for the least and the greatest
\* value of random(); empty for a city without a boundary.
ClampSamples ==
    [city \in ResampleCities |->
        IF cityHubs[city].name \in DOMAIN coastalBoundaries
        THEN {DAdd(MinLng[cityHubs[city].name],
                   DMul(DRandom(state), Decimal([num |-> 1, den |-> 100]))) :
                state \in {0, RandMax - 1}}
        ELSE {}]

\* boundary && lng < boundary.minLng
BelowBoundary(cityName, lng) ==
    /\ cityName \in DOMAIN coastalBoundaries
    /\ DCmp(lng, MinLng[cityName]) < 0

\* The loop goes on while attempts <= maxAttempts.
KeepSamplingOneMore(cityName, lng, attempts) ==
    BelowBoundary(cityName, lng) /\ attempts <= maxAttempts

\* while (boundary && lng < boundary.minLng && attempts < maxAttempts)
KeepSampling(cityName, lng, attempts) ==
    BelowBoundary(cityName, lng) /\ attempts < maxAttempts

ResampleInit ==
    /\ program = "resample"
    /\ RouteIdle
    /\ AnimationIdle
    /\ TwinIdle
    /\ PrngIdle
    /\ StationsIdle
    /\ ProbeIdle
    /\ KeysIdle
    /\ TripsIdle
    /\ NetworkIdle
    /\ rsCity \in ResampleCities
    /\ rsCount \in 1..MaxCount
    /\ rsPc = "idle"
    /\ rsI = 0
    /\ rsAttempts = 0
    /\ rsLng = DZero
    /\ rsStations = <<>>

\* generateStationsAroundCity(cityName, center, count, startId): the for
\* loop is entered, count being positive
ResampleCall ==
    /\ program = "resample"
    /\ rsPc = "idle"
    /\ rsPc' = "sample"
    /\ rsI' = 0
    /\ rsAttempts' = 0
    /\ rsStations' = <<>>
    /\ UNCHANGED <<rsCity, rsCount, rsLng, notResample>>

\* One pass of the do-while loop: the body, then the loop condition
ResamplePass ==
    /\ program = "resample"
    /\ rsPc = "sample"
    /\ \E lng \in LngSamples[rsCity] :
          /\ rsLng' = lng
          /\ rsPc' = IF KeepSampling(cityHubs[rsCity].name, lng, rsAttempts + 1)
                     THEN "sample" ELSE "sampled"
    /\ rsAttempts' = rsAttempts + 1
    /\ UNCHANGED <<rsCity, rsCount, rsI, rsStations, notResample>>

\* The rest of the body of the for loop, whose other draws do not touch
\* lng: stations.push, i++, and the next station or the return.
StationPushed(lng, clamped) ==
    /\ rsStations' = Append(rsStations, [lng |-> lng, attempts |-> rsAttempts, clamped |-> clamped])
    /\ rsI' = rsI + 1
    /\ rsAttempts' = 0
    /\ rsPc' = IF rsI + 1 < rsCount THEN "sample" ELSE "done"
    /\ UNCHANGED <<rsCity, rsCount, notResample>>

\* if (boundary && lng < boundary.minLng) lng = boundary.minLng + random() * 0.01
ResampleClamp ==
    /\ program = "resample"
    /\ rsPc = "sampled"
    /\ BelowBoundary(cityHubs[rsCity].name, rsLng)
    /\ \E lng \in ClampSamples[rsCity] :
          /\ rsLng' = lng
          /\ StationPushed(lng, TRUE)

\* The longitude sampled last is kept.
ResampleKeep ==
    /\ program = "resample"
    /\ rsPc = "sampled"
    /\ ~BelowBoundary(cityHubs[rsCity].name, rsLng)
    /\ rsLng' = rsLng
    /\ StationPushed(rsLng, FALSE)

ResampleNext == ResampleCall \/ ResamplePass \/ ResampleClamp \/ ResampleKeep

SpecResample == ResampleInit /\ [][ResampleNext]_vars

\* C24: for every station of a city with a coastal boundary the re-sampling
\* loop makes at most 10 passes, whatever the generator returns, and the
\* longitude of the station pushed is at least the boundary minLng; for a
\* city without a boundary the loop makes exactly one pass.
C24_BoundedResampling ==
    /\ rsAttempts <= maxAttempts
    /\ \A k \in 1..Len(rsStations) :
          /\ rsStations[k].attempts \in 1..maxAttempts
          /\ IF cityHubs[rsCity].name \in DOMAIN coastalBoundaries
             THEN DCmp(rsStations[k].lng, MinLng[cityHubs[rsCity].name]) >= 0
             ELSE rsStations[k].attempts = 1 /\ ~rsStations[k].clamped

\* Two stations of The Hague: one clamped after ten passes that all fell
\* west of the boundary, one kept after a single pass.
C24_Witness ==
    /\ rsPc = "done"
    /\ cityHubs[rsCity].name = "The Hague"
    /\ \E k \in 1..Len(rsStations) :
          rsStations[k].attempts = maxAttempts /\ rsStations[k].clamped
    /\ \E k \in 1..Len(rsStations) :
          rsStations[k].attempts = 1 /\ ~rsStations[k].clamped

\* Two stations of Amsterdam, one of them west of the centre.
C24_WitnessInland ==
    /\ rsPc = "done"
    /\ cityHubs[rsCity].name = "Amsterdam"
    /\ Len(rsStations) = 2
    /\ \E k \in 1..Len(rsStations) : DCmp(rsStations[k].lng, CenterLng(rsCity)) < 0

(* ----------------------- the animation of DeckGLMap -------------------- *)
\* Times and speeds are in thousandths, frame deltas in milliseconds.
MAX_TRIP_TIME == 1800

\* const speeds = [0.1, 0.25, 0.5, 1, 2]
speeds == {100, 250, 500, 1000, 2000}

\* time - lastTime of a frame whose lastTime is the timestamp of the frame
\* before: frame timestamps never decrease; 9 s pass while the tab is hidden.
FrameDeltas == {0, 17, 9000}

\* time - lastTime of the first frame after the effect ran, lastTime being
\* performance.now() of the effect: the timestamp of a frame is the time the
\* frame began, which precedes the clock reading of an effect that ran
\* after the frame began and before its callbacks were run.
FirstDeltas == {-4, 0, 17}

\* Values of the range input: min 0, max maxTime.
ScrubTimes == {0, 900 * 1000, MAX_TRIP_TIME * 1000}

\* (t) => { const next = t + (delta * 0.1 * animationSpeed);
\*          return next > MAX_TRIP_TIME ? 0 : next; }
Advanced(t, delta, speed) ==
    IF t + (delta * speed) \div 10 > MAX_TRIP_TIME * 1000 THEN 0
    ELSE t + (delta * speed) \div 10

\* The animation effect, run after a render with the given state: the frame
\* pending is cancelled by the cleanup, a new one is requested when playing
\* on the trips layer.
AnimationEffect(playing, layer) ==
    /\ animationRef' = (playing /\ layer = "trips")
    /\ lastTimeIsNow' = (playing /\ layer = "trips")

\* <AnimationControls> is rendered: activeLayer === 'trips' && tripsData.length > 0
ControlsShown == mounted /\ activeLayer = "trips"

AnimationInit ==
    /\ program = "animation"
    /\ RouteIdle
    /\ PrngIdle
    /\ StationsIdle
    /\ ProbeIdle
    /\ KeysIdle
    /\ TripsIdle
    /\ NetworkIdle
    /\ ResampleIdle
    /\ AnimationIdle
    /\ TwinIdle

\* The first render of DeckGLMap and its effects.
AnimationMount ==
    /\ program = "animation"
    /\ ~mounted
    /\ mounted' = TRUE
    /\ AnimationEffect(isPlaying, activeLayer)
    /\ UNCHANGED <<activeLayer, currentTime, isPlaying, animationSpeed, animFrames, notAnimation>>

\* animate(time): the state update it queues, applied by the next render,
\* and the request of the next frame.
AnimationFrame ==
    /\ program = "animation"
    /\ animationRef
    /\ animFrames < MaxFrames
    /\ \E delta \in IF lastTimeIsNow THEN FirstDeltas ELSE FrameDeltas :
          currentTime' = Advanced(currentTime, delta, animationSpeed)
    /\ lastTimeIsNow' = FALSE
    /\ animFrames' = animFrames + 1
    /\ UNCHANGED <<mounted, activeLayer, isPlaying, animationSpeed, animationRef, notAnimation>>

\* handlePlayPause, the render and the effect, whose dependency isPlaying
\* changed.
PlayPause ==
    /\ program = "animation"
    /\ ControlsShown
    /\ isPlaying' = ~isPlaying
    /\ AnimationEffect(~isPlaying, activeLayer)
    /\ UNCHANGED <<mounted, activeLayer, currentTime, animationSpeed, animFrames, notAnimation>>

\* handleTimeChange(time): no dependency of the effect changes.
TimeChange ==
    /\ program = "animation"
    /\ ControlsShown
    /\ \E time \in ScrubTimes : currentTime' = time
    /\ UNCHANGED <<mounted, activeLayer, isPlaying, animationSpeed, animationRef, lastTimeIsNow,
                   animFrames, notAnimation>>

\* handleSpeedChange(speed), the render and the effect; the button of the
\* speed in use changes nothing.
SpeedChange ==
    /\ program = "animation"
    /\ ControlsShown
    /\ \E speed \in speeds \ {animationSpeed} : animationSpeed' = speed
    /\ AnimationEffect(isPlaying, activeLayer)
    /\ UNCHANGED <<mounted, activeLayer, currentTime, isPlaying, animFrames, notAnimation>>

\* handleLayerChange(layer), the render and the effect.
LayerChange ==
    /\ program = "animation"
    /\ mounted
    /\ \E layer \in LayerTypes \ {activeLayer} :
          /\ activeLayer' = layer
          /\ AnimationEffect(isPlaying, layer)
    /\ UNCHANGED <<mounted, currentTime, isPlaying, animationSpeed, animFrames, notAnimation>>

AnimationNext ==
    \/ AnimationMount
    \/ AnimationFrame
    \/ PlayPause
    \/ TimeChange
    \/ SpeedChange
    \/ LayerChange

SpecAnimation == AnimationInit /\ [][AnimationNext]_vars

\* C25 as stated: after any sequence of frames, scrubs, speed changes,
\* play/pause toggles and layer switches, 0 <= currentTime <= MAX_TRIP_TIME.
C25_Original == 0 <= currentTime /\ currentTime <= MAX_TRIP_TIME * 1000

\* What does hold: currentTime never exceeds MAX_TRIP_TIME, and it is
\* negative only after a frame.
C25_AtMostMax ==
    /\ currentTime <= MAX_TRIP_TIME * 1000
    /\ currentTime < 0 => animFrames > 0

\* What does hold: a frame runs only while isPlaying is true and the active
\* layer is trips, and only a frame or a scrub changes currentTime.
C25_FramesWhilePlaying ==
    [][/\ animFrames' # animFrames => (isPlaying /\ activeLayer = "trips")
       /\ currentTime' # currentTime
             => (animFrames' # animFrames \/ (currentTime' \in ScrubTimes /\ ControlsShown))]_vars

(* -------------------- the trip categories of the dashboard -------------- *)
\* getTripTypeFromColor of StatsDashboard.tsx
getTripTypeFromColor(color) ==
    IF color[1] > 180 /\ color[2] > 100 /\ color[2] < 120 THEN "delivery"
    ELSE IF color[1] > 100 /\ color[2] > 100 /\ color[3] > 100 THEN "commuter"
    ELSE "roadtrip"

\* C27 as stated: for every trip the trip expander produces, the category
\* getTripTypeFromColor gives its colour is the tripType of the demand edge
\* the trip was generated from.
C27_Original ==
    \A k \in 1..Len(trips) :
        getTripTypeFromColor(trips[k].color) = tripRoutes[tripOrigin[k].edge].tripType

\* What does hold: a trip of a roadtrip edge is counted as a roadtrip, a
\* trip of a delivery edge is never counted as a delivery, and a trip of a
\* commuter edge is counted as a commuter only in the lowest battery band.
C27_RoadtripsOnly ==
    \A k \in 1..Len(trips) :
        /\ tripRoutes[tripOrigin[k].edge].tripType = "roadtrip"
              => getTripTypeFromColor(trips[k].color) = "roadtrip"
        /\ tripRoutes[tripOrigin[k].edge].tripType = "delivery"
              => getTripTypeFromColor(trips[k].color) = "roadtrip"
        /\ tripRoutes[tripOrigin[k].edge].tripType = "commuter"
              => (getTripTypeFromColor(trips[k].color) = "commuter"
                     <=> trips[k].color = Brightened(<<255, 80, 80>>))

\* A route load started by the component has not run its .then callback.
LoadInProgress == \E n \in 1..MaxInv : invs[n].pc \notin {"none", "resolved"}

\* The load is over: routesLoading is false again, routesLoaded is true and
\* tripsData was set from refreshTripData, once.
LoadFinished ==
    /\ ~routesLoading
    /\ ~pendingLoading
    /\ routesLoaded
    /\ tripsRefreshes = 1

\* C26: in the live DeckGLMap routesLoading, with the state updates queued
\* applied, is true while and only while a route load started by the
\* component is in progress, and whatever the routing service answers the
\* load finishes: routesLoading returns to false, routesLoaded is true and
\* tripsData has been set from refreshTripData.
C26_LoadingUntilLoaded ==
    /\ [](pendingLoading <=> LoadInProgress)
    /\ [](routesLoading => (LoadInProgress \/ pendingLoading # routesLoading))
    /\ LoadInProgress ~> LoadFinished
    /\ [](LoadFinished => []LoadFinished)

\* A load of several pairs finished, one pair resolved and one not.
C26_Witness ==
    /\ program = "live"
    /\ LoadFinished
    /\ \E n \in 1..MaxInv :
          /\ invs[n].pc = "resolved"
          /\ \E j \in DOMAIN invs[n].calls : invs[n].calls[j].result = NoRoute
          /\ \E j \in DOMAIN invs[n].calls : invs[n].calls[j].result # NoRoute

(* ------------- generateTripData on two tables of routes ---------------- *)

DepotC == [id |-> StationId(50),
           name |-> <<"U", "t", "r", "e", "c", "h", "t", " ", "C", "e", "n", "t", "r", "u", "m",
                      " ", "1">>]

\* The edge whose forward geometry one table has and the other lacks.
TwinFirstEdges ==
    {[from |-> DepotA, to |-> DepotB, tripType |-> t, weight |-> w] :
        t \in {"delivery", "commuter"}, w \in (MaxWeight - 1)..MaxWeight}

\* The later edges, between another pair of stations.
TwinLaterEdges ==
    {[from |-> DepotC, to |-> DepotA, tripType |-> "roadtrip", weight |-> w] :
        w \in (MaxWeight - 1)..MaxWeight}

TwinRoutes ==
    {<<first>> \o later :
        first \in TwinFirstEdges, later \in SeqsUpTo(TwinLaterEdges, MaxTripEdges - 1)}

TwinGeometry ==
    TripGeometry
    @@ (getRouteKey(DepotC.id, DepotA.id) :>
          [coordinates |-> Line(2), distance |-> 40000, duration |-> 1800])
    @@ (getRouteKey(DepotA.id, DepotC.id) :>
          [coordinates |-> Line(3), distance |-> 45000, duration |-> 2000])

ForwardKey == getRouteKey(DepotA.id, DepotB.id)

ReverseKey == getRouteKey(DepotB.id, DepotA.id)

\* The tables in which the forward geometry of the first edge is present.
TwinTables ==
    {[k \in K \cup {ForwardKey} |-> TwinGeometry[k]] : K \in SUBSET (DOMAIN TwinGeometry)}

\* The table that differs from geoms only in lacking the key.
Without(geoms, key) == [k \in (DOMAIN geoms) \ {key} |-> geoms[k]]

\* Two runs of generateTripData on the same evRoutes, from the same seed: one
\* on tripGeoms, one on tripGeoms without the forward key of the first edge.
\* Both loops depend on evRoutes alone, so the runs go pass by pass together.
TwinInit ==
    /\ program = "twin"
    /\ RouteIdle
    /\ PrngIdle
    /\ StationsIdle
    /\ ProbeIdle
    /\ KeysIdle
    /\ NetworkIdle
    /\ ResampleIdle
    /\ AnimationIdle
    /\ tripRoutes \in TwinRoutes
    /\ tripGeoms \in TwinTables
    /\ twinGeoms = Without(tripGeoms, ForwardKey)
    /\ tripPc = "idle"
    /\ tripRandom = TripSeed
    /\ trips = <<>>
    /\ tripOrigin = <<>>
    /\ tripId = 0
    /\ tripEdge = 1
    /\ tripI = 0
    /\ twinRandom = TripSeed
    /\ twinTrips = <<>>
    /\ twinOrigin = <<>>
    /\ twinId = 0

\* generateTripData() of both runs: the locals before evRoutes.forEach
TwinCall ==
    /\ program = "twin"
    /\ tripPc = "idle"
    /\ tripPc' = "loop"
    /\ tripRandom' = TripSeed
    /\ trips' = <<>>
    /\ tripOrigin' = <<>>
    /\ tripId' = 0
    /\ tripEdge' = 1
    /\ tripI' = 0
    /\ twinRandom' = TripSeed
    /\ twinTrips' = <<>>
    /\ twinOrigin' = <<>>
    /\ twinId' = 0
    /\ UNCHANGED <<tripRoutes, tripGeoms, twinGeoms, notTwin>>

\* trips.push of what one pass of the second run produced.
TwinPushed(body) ==
    /\ twinTrips' = twinTrips \o [k \in 1..Len(body.pushed) |-> body.pushed[k].trip]
    /\ twinOrigin' = twinOrigin \o
         [k \in 1..Len(body.pushed) |->
             [edge |-> tripEdge, direction |-> body.pushed[k].direction,
              startTime |-> body.pushed[k].startTime,
              endTime |-> body.pushed[k].endTime]]
    /\ twinId' = twinId + Len(body.pushed)
    /\ twinRandom' = body.seed

\* One pass of the loop `for (let i = 0; i < numTrips; i++)` in both runs.
TwinPass ==
    /\ program = "twin"
    /\ tripPc = "loop"
    /\ tripEdge <= Len(tripRoutes)
    /\ tripI < NumTrips(tripRoutes[tripEdge])
    /\ TripsPushed(TripLoopBody(tripRoutes[tripEdge], tripI, tripGeoms, tripId, tripRandom))
    /\ TwinPushed(TripLoopBody(tripRoutes[tripEdge], tripI, twinGeoms, twinId, twinRandom))
    /\ tripI' = tripI + 1
    /\ UNCHANGED <<tripRoutes, tripGeoms, twinGeoms, tripPc, tripEdge, notTwin>>

\* The loop of an edge ends and forEach moves on, in both runs.
TwinNextEdge ==
    /\ program = "twin"
    /\ tripPc = "loop"
    /\ tripEdge <= Len(tripRoutes)
    /\ tripI >= NumTrips(tripRoutes[tripEdge])
    /\ tripEdge' = tripEdge + 1
    /\ tripI' = 0
    /\ UNCHANGED <<tripRoutes, tripGeoms, tripPc, tripRandom, trips, tripOrigin, tripId,
                   twinVars, notTwin>>

\* return trips, in both runs
TwinReturn ==
    /\ program = "twin"
    /\ tripPc = "loop"
    /\ tripEdge > Len(tripRoutes)
    /\ tripPc' = "done"
    /\ UNCHANGED <<tripRoutes, tripGeoms, tripRandom, trips, tripOrigin, tripId, tripEdge,
                   tripI, twinVars, notTwin>>

TwinNext == TwinCall \/ TwinPass \/ TwinNextEdge \/ TwinReturn

SpecTwin == TwinInit /\ [][TwinNext]_vars

\* What is seen of the trips of a run that the filter keeps: start time,
\* vehicle and colour, in the order pushed.  The id is left out, since it
\* holds the running number of the trip.
SeenOf(list, origin, Keep(_)) ==
    [k \in 1..Len(SelectSeq(origin, Keep)) |->
        LET n == CHOOSE m \in 1..Len(origin) :
                   /\ Keep(origin[m])
                   /\ Cardinality({j \in 1..m : Keep(origin[j])}) = k
        IN  [startTime |-> origin[n].startTime, vehicle |-> list[n].vehicle,
             color |-> list[n].color]]

IsFirstReturn(o) == o.edge = 1 /\ o.direction = "return"

IsFirstForward(o) == o.edge = 1 /\ o.direction = "forward"

IsLater(o) == o.edge > 1

\* C28 as stated: once both runs returned, the return trips of the first
\* edge are the same in both (number, start times, vehicles), and so are the
\* trips of all later edges.
C28_Original ==
    tripPc = "done" =>
        /\ SeenOf(trips, tripOrigin, IsFirstReturn) = SeenOf(twinTrips, twinOrigin, IsFirstReturn)
        /\ SeenOf(trips, tripOrigin, IsLater) = SeenOf(twinTrips, twinOrigin, IsLater)

RECURSIVE NthSeed(_, _)
\* The state of the generator after n draws.
NthSeed(state, n) == IF n = 0 THEN state ELSE NthSeed(NextSeed(state), n - 1)

\* Which draw of a pass decides on the return trip: startTime and the
\* vehicle come first, and a forward trip draws its battery level.
ReturnDraw(evRoute, geoms) ==
    IF MapHas(geoms, getRouteKey(evRoute.from.id, evRoute.to.id)) THEN 4 ELSE 3

\* Whether a pass from the generator state seed pushes a return trip.
ReturnDue(evRoute, geoms, seed) ==
    /\ MapHas(geoms, getRouteKey(evRoute.to.id, evRoute.from.id))
    /\ RandGreater(NthSeed(seed, ReturnDraw(evRoute, geoms)), 3, 10)

\* The directions of the trips a step pushed.
PushedIn(before, after) == {after[k].direction : k \in (Len(before) + 1)..Len(after)}

\* C28, amended: in either run a pass pushes a forward trip exactly when the
\* table has the forward geometry, and a return trip exactly when the table
\* has the reverse geometry and the return draw of the pass exceeds 0.3;
\* that draw is the third of the pass without a forward trip and the fourth
\* with one, so the return trips of the two runs need not agree.
C28_ReturnOnOwnDraw ==
    [][TwinPass =>
        /\ "forward" \in PushedIn(tripOrigin, tripOrigin')
             <=> MapHas(tripGeoms, getRouteKey(tripRoutes[tripEdge].from.id,
                                               tripRoutes[tripEdge].to.id))
        /\ "forward" \in PushedIn(twinOrigin, twinOrigin')
             <=> MapHas(twinGeoms, getRouteKey(tripRoutes[tripEdge].from.id,
                                               tripRoutes[tripEdge].to.id))
        /\ "return" \in PushedIn(tripOrigin, tripOrigin')
             <=> ReturnDue(tripRoutes[tripEdge], tripGeoms, tripRandom)
        /\ "return" \in PushedIn(twinOrigin, twinOrigin')
             <=> ReturnDue(tripRoutes[tripEdge], twinGeoms, twinRandom)]_vars

\* Both runs returned; the run without the forward geometry pushed no forward
\* trip for the first edge but return trips for it, and these are not the
\* return trips of the other run.
C28_Witness ==
    /\ program = "twin"
    /\ tripPc = "done"
    /\ SelectSeq(twinOrigin, IsFirstForward) = <<>>
    /\ SelectSeq(tripOrigin, IsFirstForward) # <<>>
    /\ SelectSeq(twinOrigin, IsFirstReturn) # <<>>
    /\ SeenOf(trips, tripOrigin, IsFirstReturn) # SeenOf(twinTrips, twinOrigin, IsFirstReturn)

(* --------------------- both ways of resolving routes ------------------- *)
Init == OfflineInit \/ LiveInit

Next == OfflineNext \/ LiveNext

Spec == Init /\ [][Next]_vars

C4_Original == \A cp \in CoordPairs : resSent[cp] <= 1

\* C4 amended: a call that finds its key in routeCache returns the cached
\* value and sends nothing; so a call that starts after a call with the same
\* coordinate pair has returned a geometry sends no request.
C4_CacheHit ==
    [][\A c \in 1..MaxCalls :
          LET before == resCalls[c]
              after == resCalls'[c]
              key == getCacheKey(after.start, after.end)
          IN  /\ (before.pc = "free" /\ after.pc # "free" /\ MapHas(routeCache, key))
                    => /\ after.pc = "done"
                       /\ after.result = routeCache[key]
                       /\ after.sent = 0
                       /\ resSent' = resSent
              /\ after.prior # {} => (after.sent = 0 /\ after.result # NoRoute)]_vars

C4_Witness ==
    \E c \in 1..MaxCalls :
        /\ resCalls[c].pc = "done"
        /\ resCalls[c].prior # {}
        /\ resCalls[c].sent = 0
        /\ resSent[<<resCalls[c].start, resCalls[c].end>>] = 1

\* C5 as stated: once a key is in routeCache or in routeGeometries, no later
\* write changes the value stored for it, whatever the interleaving and
\* whichever coordinate pairs share the rounded cache key.
C5_Original ==
    [][/\ \A k \in DOMAIN routeCache : MapHas(routeCache', k) /\ routeCache'[k] = routeCache[k]
       /\ \A k \in DOMAIN liveGeoms : MapHas(liveGeoms', k) /\ liveGeoms'[k] = liveGeoms[k]]_vars

\* C6: in the interactive path at most one invocation of initializeRoutes is
\* ever started, whatever the layer switches and effect re-runs, so the route
\* network is generated once, no pair is requested by a second load, and
\* refreshTripData runs at most once.
C6_SingleLoad ==
    /\ invCount <= 1
    /\ \A n \in 2..MaxInv : invs[n].pc = "none"
    /\ tripsRefreshes <= 1
    /\ tripsRefreshes = 1 => routesLoaded

C6_Witness ==
    /\ program = "live"
    /\ activeLayer = "trips"
    /\ routesLoading
    /\ ~routesLoaded
    /\ invs[1].pc = "delay"
    /\ invCount = 1

\* C7 as stated: without VITE_MAPBOX_TOKEN the offline script exits with
\* status 1 before doing anything, and the interactive loader sends no
\* routing request.
C7_Original ==
    ~token =>
        /\ ~netActivity
        /\ ~stationsGenerated
        /\ outputFile = <<>>
        /\ (program = "offline" /\ offPc # "start") => (offPc = "exited" /\ exitCode = 1)

\* C7 amended: without VITE_MAPBOX_TOKEN the offline script logs the error
\* and exits with status 1 before generating stations, collecting route
\* pairs, sending a request or writing the output file.
C7_OfflineFailFast ==
    (program = "offline" /\ ~token) =>
        /\ ~netActivity
        /\ ~stationsGenerated
        /\ offRoutePairs = <<>>
        /\ outputFile = <<>>
        /\ offPc \in {"start", "exited"}
        /\ offPc = "exited" => (exitCode = 1 /\ errorLogged)

C7_Witness ==
    /\ program = "offline"
    /\ ~token
    /\ offPc = "exited"
    /\ exitCode = 1
    /\ network # <<>>

\* routePairs holds each edge and its reverse, every route key once, and
\* nothing else.
PairsCoverNetwork(pairs, net) ==
    /\ \A e \in 1..Len(net) :
          /\ \E i \in 1..Len(pairs) : pairs[i].from = net[e].from /\ pairs[i].to = net[e].to
          /\ \E i \in 1..Len(pairs) : pairs[i].from = net[e].to /\ pairs[i].to = net[e].from
    /\ \A i, j \in 1..Len(pairs) :
          i # j => getRouteKey(pairs[i].from.id, pairs[i].to.id)
                      # getRouteKey(pairs[j].from.id, pairs[j].to.id)
    /\ \A i \in 1..Len(pairs) :
          /\ pairs[i].key = getRouteKey(pairs[i].from.id, pairs[i].to.id)
          /\ \E e \in 1..Len(net) :
                \/ pairs[i].from = net[e].from /\ pairs[i].to = net[e].to
                \/ pairs[i].from = net[e].to /\ pairs[i].to = net[e].from

\* C8: routePairs, in the offline script and in initializeRoutes, holds for
\* every edge the pair and its reverse, every route key exactly once, and no
\* other pair; the resolver is invoked at most once per route key.
C8_UniquePairs ==
    /\ stationsGenerated => PairsCoverNetwork(offRoutePairs, network)
    /\ \A a, b \in 1..Len(offResolved) : a # b => offResolved[a] # offResolved[b]
    /\ \A a \in 1..Len(offResolved) : \E i \in 1..Len(offRoutePairs) : offRoutePairs[i].key = offResolved[a]
    /\ \A n \in 1..MaxInv :
          invs[n].pc # "none" => PairsCoverNetwork(invs[n].routePairs, network)

C8_Witness ==
    /\ program = "offline"
    /\ offPc = "done"
    /\ Len(network) = 3
    /\ network[1] = network[2]
    /\ network[3].from = network[1].to
    /\ network[3].to = network[1].from
    /\ Len(offRoutePairs) = 2
    /\ Len(offResolved) = 2

\* The calls that have a request in flight or sleep before a retry.
Active(calls) == {j \in DOMAIN calls : calls[j].pc \in {"inflight", "sleeping"}}

\* Calls are started batch by batch: a started call has every call of the
\* earlier batches finished and one elapsed delay per earlier batch.
BatchOrder(calls, batchSize, delays) ==
    \A j \in DOMAIN calls :
        calls[j].pc # "idle" =>
            /\ \A k \in 1..(((j - 1) \div batchSize) * batchSize) : calls[k].pc = "done"
            /\ delays >= (j - 1) \div batchSize

\* C9: at most batchSize requests are in flight (2 offline, 5 in
\* initializeRoutes), and no request of a batch is sent before every call of
\* the batch before it has finished, retries and backoff included, and the
\* inter-batch delay has elapsed.
C9_BoundedBatches ==
    /\ Cardinality(Active(offCalls)) <= OfflineBatchSize
    /\ BatchOrder(offCalls, OfflineBatchSize, offDelays)
    /\ \A n \in 1..MaxInv :
          /\ Cardinality(Active(invs[n].calls)) <= LiveBatchSize
          /\ BatchOrder(invs[n].calls, LiveBatchSize, invs[n].delays)
          /\ \A m \in 1..MaxInv : (m # n /\ Active(invs[n].calls) # {}) => Active(invs[m].calls) = {}

C9_Witness ==
    /\ program = "offline"
    /\ offDelays = 1
    /\ offCalls[3].pc = "sleeping"
    /\ offCalls[3].attempt = 1
    /\ offCalls[4].pc = "inflight"

\* The table and the counter that the results of the finished calls determine.
TableOf(calls, pairs) ==
    LET good == {j \in DOMAIN calls : calls[j].pc = "done" /\ calls[j].result # NoRoute}
        keys == {getRouteKey(pairs[j].from.id, pairs[j].to.id) : j \in good}
    IN  [k \in keys |->
            calls[CHOOSE j \in good : getRouteKey(pairs[j].from.id, pairs[j].to.id) = k].result]

CountDone(calls, ok) ==
    Cardinality({j \in DOMAIN calls : calls[j].pc = "done" /\ ((calls[j].result # NoRoute) = ok)})

\* C10: routeGeometries and the counters are determined by the result of
\* each pair alone, whatever the order in which the calls of a batch finish.
C10_OrderIrrelevant ==
    /\ offGeoms = TableOf(offCalls, offRoutePairs)
    /\ fetched = CountDone(offCalls, TRUE)
    /\ failed = CountDone(offCalls, FALSE)
    /\ invCount <= 1 =>
          /\ liveGeoms = TableOf(invs[1].calls, invs[1].routePairs)
          /\ invs[1].fetched = CountDone(invs[1].calls, TRUE)

C10_Witness ==
    /\ program = "offline"
    /\ Len(offCalls) >= 2
    /\ offCalls[1].pc = "sleeping"
    /\ offCalls[2].pc = "done"
    /\ offCalls[2].result # NoRoute
    /\ fetched = 1

\* C11 as stated: when the driver is interrupted between two batches, the
\* output that exists is the route table with the entries resolved so far.
C11_Original == offPc = "interrupted" => outputFile = <<offGeoms>>

\* C11 amended: the output file is written once, after the last batch, with
\* the complete table, so an interruption between two batches leaves no
\* output of this run; the table held in memory at that point maps every key
\* to the geometry resolved for its ordered pair and holds every entry
\* resolved so far.
C11_NoPartialFile ==
    /\ offPc \in {"batch", "delay", "interrupted"} => outputFile = <<>>
    /\ outputFile # <<>> =>
          /\ offPc = "done"
          /\ outputFile = <<offGeoms>>
          /\ \A j \in DOMAIN offCalls : offCalls[j].pc = "done"
    /\ \A k \in DOMAIN offGeoms :
          \E j \in DOMAIN offCalls :
              /\ offRoutePairs[j].key = k
              /\ offCalls[j].pc = "done"
              /\ offGeoms[k] = ServiceRoute(offRoutePairs[j].from.coordinates,
                                            offRoutePairs[j].to.coordinates)
    /\ \A j \in DOMAIN offCalls :
          (offCalls[j].pc = "done" /\ offCalls[j].result # NoRoute)
              => /\ MapHas(offGeoms, offRoutePairs[j].key)
                 /\ offGeoms[offRoutePairs[j].key] = offCalls[j].result

C11_Witness ==
    /\ offPc = "interrupted"
    /\ fetched = 1
    /\ failed = 1
    /\ Len(offRoutePairs) = 4
    /\ outputFile = <<>>

\* C16 as stated: every value a generator made by seededRandom returns is at
\* least 0 and less than 1, and each call advances the state to
\* (state * 1103515245 + 12345) mod 2^31.
C16_Original ==
    prngCalls > 0 =>
        /\ prngOut.num >= 0
        /\ prngOut.num < prngOut.den
        /\ prngSeed = ExactNextSeed(prngPrev)

\* The ids of a station list, and the ids generateChargingStations is to
\* hand out to its first n stations.
IdsOf(list) == {list[a].id : a \in 1..Len(list)}

RECURSIVE SumDensity(_)
SumDensity(n) == IF n = 0 THEN 0 ELSE cityHubs[n].density + SumDensity(n - 1)

ExpectedId(a) ==
    IF a <= SumDensity(Len(cityHubs))
      THEN StationId(a - 1)
      ELSE HighwayId(a - 1 - SumDensity(Len(cityHubs)))

\* C15 as stated: two calls of generateChargingStations in one process
\* return identical station sequences.
C15_Original == Len(genResults) >= 2 => genResults[1] = genResults[2]

\* C17: every station built, around a city or at a highway, has
\* chargers > 0 and 0 <= available <= chargers, whatever random() returns.
C17_AvailableBounded ==
    probe # <<>> =>
        /\ probe[2].chargers > 0
        /\ probe[2].available >= 0
        /\ probe[2].available <= probe[2].chargers

C17_Witness ==
    /\ probe # <<>>
    /\ probe[1] = "city"
    /\ probe[2].type = "standard"
    /\ probe[2].chargers = 5
    /\ probe[2].available = 5

\* C18: the ids of the stations of one call are pairwise distinct: the
\* city stations are station-0, station-1, ... in order without a repeat
\* across hubs, the highway stations highway-0, highway-1, ..., and no city
\* id equals a highway id.
C18_UniqueIds ==
    /\ Cardinality(IdsOf(genStations)) = Len(genStations)
    /\ \A a \in 1..Len(genStations) : genStations[a].id = ExpectedId(a)
    /\ \A c \in 1..Len(genResults) :
          /\ Len(genResults[c]) = SumDensity(Len(cityHubs)) + Len(highwayStations)
          /\ Cardinality(IdsOf(genResults[c])) = Len(genResults[c])

C18_Witness ==
    /\ Len(genResults) = 1
    /\ Len(genResults[1]) = 176
    /\ genResults[1][150].id = <<"station", "-", "1", "4", "9">>
    /\ genResults[1][176].id = <<"highway", "-", "2", "5">>

\* C20: for station ids of the forms station-N and highway-N, two ordered
\* pairs have the same route key only when they are the same pair; so the
\* key of (A, B) differs from the key of (B, A) when A and B differ.
C20_InjectiveKeys ==
    routeKeys # <<>> =>
        /\ routeKeys[1] = routeKeys[3] <=> (keyIds[1] = keyIds[3] /\ keyIds[2] = keyIds[4])
        /\ keyIds[1] # keyIds[2] => routeKeys[1] # routeKeys[2]

C20_Witness ==
    /\ routeKeys # <<>>
    /\ keyIds = <<StationId(1), StationId(11), StationId(11), StationId(1)>>
    /\ routeKeys[1] = <<"station", "-", "1", "-", "station", "-", "1", "1">>
    /\ routeKeys[2] = routeKeys[3]

\* min(i + batchSize, routePairs.length): the pairs of the batches begun.
Progress(i, n, batchSize) == IF i + batchSize < n THEN i + batchSize ELSE n

\* C30: in the offline script fetched counts the keys of routeGeometries;
\* once a batch has settled fetched + failed is the number of pairs of the
\* batches begun; when the script is done fetched + failed is
\* routePairs.length and a pair is missing from the file written exactly
\* when fetchRouteWithRetry returned null for it.
C30_CountsAddUp ==
    /\ Cardinality(DOMAIN offGeoms) = fetched
    /\ (\/ offPc \in {"delay", "interrupted", "done"}
        \/ /\ offPc = "batch"
           /\ BatchSettled(offCalls, BatchOf(offI, Len(offRoutePairs), OfflineBatchSize)))
          => fetched + failed = Progress(offI, Len(offRoutePairs), OfflineBatchSize)
    /\ offPc = "done" =>
          /\ fetched + failed = Len(offRoutePairs)
          /\ outputFile # <<>>
          /\ \A j \in 1..Len(offRoutePairs) :
                ~MapHas(outputFile[1], offRoutePairs[j].key)
                    <=> (offCalls[j].pc = "done" /\ offCalls[j].result = NoRoute)

\* The script is done after more than one batch, with pairs that resolved
\* and pairs that did not.
C30_Witness ==
    /\ program = "offline"
    /\ offPc = "done"
    /\ offDelays >= 1
    /\ fetched >= 1
    /\ failed >= 1
    /\ \E j \in 1..Len(offRoutePairs) : ~MapHas(outputFile[1], offRoutePairs[j].key)

====
